---- MODULE Spec2Model ----
(***************************************************************************)
(* Model of bot.py: the 0-0 first-half monitor.  MatchMonitor keeps the    *)
(* notified set (sent_matches), the tracking table (active_matches) and    *)
(* the watch-list (monitored_leagues) in memory and in three JSON files.   *)
(* check_matches is one poll cycle; it suspends at the send_message await. *)
(*                                                                         *)
(* A string is held as a TLA+ string; Chars gives its characters, on which  *)
(* lower(), replace() and the substring test `x in y` are computed as      *)
(* Python computes them, and Str gives the string of a character sequence. *)
(* JSON values that may be missing or null are records [k, v]:             *)
(*   k = "absent" (key missing), "none" (null), "int", "str".              *)
(* An event id is such a record too: [k |-> "int", v |-> 101] is the       *)
(* number 101 and [k |-> "str", v |-> 101] is the string "101".            *)
(***************************************************************************)
EXTENDS Integers, Sequences, FiniteSets, TLC

VARIABLES
  sent_matches,       \* MatchMonitor.sent_matches: set of ids
  active_matches,     \* MatchMonitor.active_matches: its set of keys
  monitored_leagues,  \* MatchMonitor.monitored_leagues: sequence of leagues
  sent_file,          \* sent_matches.json
  active_file,        \* active_matches.json
  leagues_file,       \* leagues.json
  pc,                 \* position of check_matches: "idle", "loop", "sending"
  live_len,           \* len(live_matches) of the running cycle
  idx,                \* number of records of live_matches already iterated
  current,            \* the record whose send_message is awaited
  io_faults,          \* the files whose writes may fail in this behaviour
  hist,               \* history of the run (observations, not program state)
  probe,              \* the record under evaluation in SpecClassify
  call,               \* the call of get_live_matches under evaluation in SpecFetch
  user_data,          \* context.user_data of each Telegram user
  second              \* a second invocation of check_matches, suspended

vars == << sent_matches, active_matches, monitored_leagues, sent_file,
           active_file, leagues_file, pc, live_len, idx, current, io_faults,
           hist, probe, call, user_data, second >>

(***************************************************************************)
(* Bounds of the model.                                                    *)
(***************************************************************************)
MaxMatches == 2      \* longest fetched list
MaxRestarts == 1     \* process restarts in one behaviour
MaxCommands == 1     \* watch-list commands handled in one behaviour

(***************************************************************************)
(* Optional JSON values.                                                   *)
(***************************************************************************)
Absent == [k |-> "absent", v |-> 0]
None == [k |-> "none", v |-> 0]
I(n) == [k |-> "int", v |-> n]
StrId(n) == [k |-> "str", v |-> n]

\* Python truthiness of an optional number: missing, null and 0 are falsy.
Truthy(x) == x.k = "str" \/ (x.k = "int" /\ x.v # 0)

\* dict.get(key, default): the default only replaces a missing key.
Get(x, default) == IF x.k = "absent" THEN default ELSE x

(***************************************************************************)
(* Strings.                                                                *)
(***************************************************************************)
KnownStrings ==
  {"italy", "serie a", "serie b", "france",
   "ligue 1", "ligue 2", "spain", "la liga",
   "segunda division", "germany", "bundesliga", "2. bundesliga",
   "england", "premier league", "championship", "league one",
   "league two", "netherlands", "eredivisie", "switzerland",
   "super league", "estonia", "meistriliiga", "hong kong",
   "luxembourg", "national division", "qatar", "stars league",
   "singapore", "vietnam", "v.league 1", "norway",
   "eliteserien", "obos-ligaen", "iceland", "urvalsdeild",
   "1. deild", "italy-serie_a", "italy-serie_b", "france-ligue_1",
   "france-ligue_2", "spain-la_liga", "spain-segunda_division", "germany-bundesliga",
   "germany-2._bundesliga", "england-premier_league", "england-championship", "england-league_one",
   "england-league_two", "netherlands-eredivisie", "switzerland-super_league", "estonia-meistriliiga",
   "hong_kong-premier_league", "luxembourg-national_division", "qatar-stars_league", "singapore-premier_league",
   "vietnam-v.league_1", "norway-eliteserien", "norway-obos-ligaen", "iceland-urvalsdeild",
   "iceland-1._deild", "", " - ", "1st half",
   "2nd half", "halftime", "Halftime", "1ST HALF",
   "2nd Half", "Serie A", "Italy", "Liga X",
   "Peru", "peru", "liga x", "peru-liga_x",
   "Italia", "italia", "Serie B", "peru-serie_a",
   "italy-liga_x"}

\* the characters of a string
Chars ==
  ("italy" :> <<"i", "t", "a", "l", "y">>)
  @@ ("serie a" :> <<"s", "e", "r", "i", "e", " ", "a">>)
  @@ ("serie b" :> <<"s", "e", "r", "i", "e", " ", "b">>)
  @@ ("france" :> <<"f", "r", "a", "n", "c", "e">>)
  @@ ("ligue 1" :> <<"l", "i", "g", "u", "e", " ", "1">>)
  @@ ("ligue 2" :> <<"l", "i", "g", "u", "e", " ", "2">>)
  @@ ("spain" :> <<"s", "p", "a", "i", "n">>)
  @@ ("la liga" :> <<"l", "a", " ", "l", "i", "g", "a">>)
  @@ ("segunda division" :> <<"s", "e", "g", "u", "n", "d", "a", " ", "d", "i", "v", "i", "s", "i", "o", "n">>)
  @@ ("germany" :> <<"g", "e", "r", "m", "a", "n", "y">>)
  @@ ("bundesliga" :> <<"b", "u", "n", "d", "e", "s", "l", "i", "g", "a">>)
  @@ ("2. bundesliga" :> <<"2", ".", " ", "b", "u", "n", "d", "e", "s", "l", "i", "g", "a">>)
  @@ ("england" :> <<"e", "n", "g", "l", "a", "n", "d">>)
  @@ ("premier league" :> <<"p", "r", "e", "m", "i", "e", "r", " ", "l", "e", "a", "g", "u", "e">>)
  @@ ("championship" :> <<"c", "h", "a", "m", "p", "i", "o", "n", "s", "h", "i", "p">>)
  @@ ("league one" :> <<"l", "e", "a", "g", "u", "e", " ", "o", "n", "e">>)
  @@ ("league two" :> <<"l", "e", "a", "g", "u", "e", " ", "t", "w", "o">>)
  @@ ("netherlands" :> <<"n", "e", "t", "h", "e", "r", "l", "a", "n", "d", "s">>)
  @@ ("eredivisie" :> <<"e", "r", "e", "d", "i", "v", "i", "s", "i", "e">>)
  @@ ("switzerland" :> <<"s", "w", "i", "t", "z", "e", "r", "l", "a", "n", "d">>)
  @@ ("super league" :> <<"s", "u", "p", "e", "r", " ", "l", "e", "a", "g", "u", "e">>)
  @@ ("estonia" :> <<"e", "s", "t", "o", "n", "i", "a">>)
  @@ ("meistriliiga" :> <<"m", "e", "i", "s", "t", "r", "i", "l", "i", "i", "g", "a">>)
  @@ ("hong kong" :> <<"h", "o", "n", "g", " ", "k", "o", "n", "g">>)
  @@ ("luxembourg" :> <<"l", "u", "x", "e", "m", "b", "o", "u", "r", "g">>)
  @@ ("national division" :> <<"n", "a", "t", "i", "o", "n", "a", "l", " ", "d", "i", "v", "i", "s", "i", "o", "n">>)
  @@ ("qatar" :> <<"q", "a", "t", "a", "r">>)
  @@ ("stars league" :> <<"s", "t", "a", "r", "s", " ", "l", "e", "a", "g", "u", "e">>)
  @@ ("singapore" :> <<"s", "i", "n", "g", "a", "p", "o", "r", "e">>)
  @@ ("vietnam" :> <<"v", "i", "e", "t", "n", "a", "m">>)
  @@ ("v.league 1" :> <<"v", ".", "l", "e", "a", "g", "u", "e", " ", "1">>)
  @@ ("norway" :> <<"n", "o", "r", "w", "a", "y">>)
  @@ ("eliteserien" :> <<"e", "l", "i", "t", "e", "s", "e", "r", "i", "e", "n">>)
  @@ ("obos-ligaen" :> <<"o", "b", "o", "s", "-", "l", "i", "g", "a", "e", "n">>)
  @@ ("iceland" :> <<"i", "c", "e", "l", "a", "n", "d">>)
  @@ ("urvalsdeild" :> <<"u", "r", "v", "a", "l", "s", "d", "e", "i", "l", "d">>)
  @@ ("1. deild" :> <<"1", ".", " ", "d", "e", "i", "l", "d">>)
  @@ ("italy-serie_a" :> <<"i", "t", "a", "l", "y", "-", "s", "e", "r", "i", "e", "_", "a">>)
  @@ ("italy-serie_b" :> <<"i", "t", "a", "l", "y", "-", "s", "e", "r", "i", "e", "_", "b">>)
  @@ ("france-ligue_1" :> <<"f", "r", "a", "n", "c", "e", "-", "l", "i", "g", "u", "e", "_", "1">>)
  @@ ("france-ligue_2" :> <<"f", "r", "a", "n", "c", "e", "-", "l", "i", "g", "u", "e", "_", "2">>)
  @@ ("spain-la_liga" :> <<"s", "p", "a", "i", "n", "-", "l", "a", "_", "l", "i", "g", "a">>)
  @@ ("spain-segunda_division" :> <<"s", "p", "a", "i", "n", "-", "s", "e", "g", "u", "n", "d", "a", "_", "d", "i", "v", "i", "s", "i", "o", "n">>)
  @@ ("germany-bundesliga" :> <<"g", "e", "r", "m", "a", "n", "y", "-", "b", "u", "n", "d", "e", "s", "l", "i", "g", "a">>)
  @@ ("germany-2._bundesliga" :> <<"g", "e", "r", "m", "a", "n", "y", "-", "2", ".", "_", "b", "u", "n", "d", "e", "s", "l", "i", "g", "a">>)
  @@ ("england-premier_league" :> <<"e", "n", "g", "l", "a", "n", "d", "-", "p", "r", "e", "m", "i", "e", "r", "_", "l", "e", "a", "g", "u", "e">>)
  @@ ("england-championship" :> <<"e", "n", "g", "l", "a", "n", "d", "-", "c", "h", "a", "m", "p", "i", "o", "n", "s", "h", "i", "p">>)
  @@ ("england-league_one" :> <<"e", "n", "g", "l", "a", "n", "d", "-", "l", "e", "a", "g", "u", "e", "_", "o", "n", "e">>)
  @@ ("england-league_two" :> <<"e", "n", "g", "l", "a", "n", "d", "-", "l", "e", "a", "g", "u", "e", "_", "t", "w", "o">>)
  @@ ("netherlands-eredivisie" :> <<"n", "e", "t", "h", "e", "r", "l", "a", "n", "d", "s", "-", "e", "r", "e", "d", "i", "v", "i", "s", "i", "e">>)
  @@ ("switzerland-super_league" :> <<"s", "w", "i", "t", "z", "e", "r", "l", "a", "n", "d", "-", "s", "u", "p", "e", "r", "_", "l", "e", "a", "g", "u", "e">>)
  @@ ("estonia-meistriliiga" :> <<"e", "s", "t", "o", "n", "i", "a", "-", "m", "e", "i", "s", "t", "r", "i", "l", "i", "i", "g", "a">>)
  @@ ("hong_kong-premier_league" :> <<"h", "o", "n", "g", "_", "k", "o", "n", "g", "-", "p", "r", "e", "m", "i", "e", "r", "_", "l", "e", "a", "g", "u", "e">>)
  @@ ("luxembourg-national_division" :> <<"l", "u", "x", "e", "m", "b", "o", "u", "r", "g", "-", "n", "a", "t", "i", "o", "n", "a", "l", "_", "d", "i", "v", "i", "s", "i", "o", "n">>)
  @@ ("qatar-stars_league" :> <<"q", "a", "t", "a", "r", "-", "s", "t", "a", "r", "s", "_", "l", "e", "a", "g", "u", "e">>)
  @@ ("singapore-premier_league" :> <<"s", "i", "n", "g", "a", "p", "o", "r", "e", "-", "p", "r", "e", "m", "i", "e", "r", "_", "l", "e", "a", "g", "u", "e">>)
  @@ ("vietnam-v.league_1" :> <<"v", "i", "e", "t", "n", "a", "m", "-", "v", ".", "l", "e", "a", "g", "u", "e", "_", "1">>)
  @@ ("norway-eliteserien" :> <<"n", "o", "r", "w", "a", "y", "-", "e", "l", "i", "t", "e", "s", "e", "r", "i", "e", "n">>)
  @@ ("norway-obos-ligaen" :> <<"n", "o", "r", "w", "a", "y", "-", "o", "b", "o", "s", "-", "l", "i", "g", "a", "e", "n">>)
  @@ ("iceland-urvalsdeild" :> <<"i", "c", "e", "l", "a", "n", "d", "-", "u", "r", "v", "a", "l", "s", "d", "e", "i", "l", "d">>)
  @@ ("iceland-1._deild" :> <<"i", "c", "e", "l", "a", "n", "d", "-", "1", ".", "_", "d", "e", "i", "l", "d">>)
  @@ ("" :> <<>>)
  @@ (" - " :> <<" ", "-", " ">>)
  @@ ("1st half" :> <<"1", "s", "t", " ", "h", "a", "l", "f">>)
  @@ ("2nd half" :> <<"2", "n", "d", " ", "h", "a", "l", "f">>)
  @@ ("halftime" :> <<"h", "a", "l", "f", "t", "i", "m", "e">>)
  @@ ("Halftime" :> <<"H", "a", "l", "f", "t", "i", "m", "e">>)
  @@ ("1ST HALF" :> <<"1", "S", "T", " ", "H", "A", "L", "F">>)
  @@ ("2nd Half" :> <<"2", "n", "d", " ", "H", "a", "l", "f">>)
  @@ ("Serie A" :> <<"S", "e", "r", "i", "e", " ", "A">>)
  @@ ("Italy" :> <<"I", "t", "a", "l", "y">>)
  @@ ("Liga X" :> <<"L", "i", "g", "a", " ", "X">>)
  @@ ("Peru" :> <<"P", "e", "r", "u">>)
  @@ ("peru" :> <<"p", "e", "r", "u">>)
  @@ ("liga x" :> <<"l", "i", "g", "a", " ", "x">>)
  @@ ("peru-liga_x" :> <<"p", "e", "r", "u", "-", "l", "i", "g", "a", "_", "x">>)
  @@ ("Italia" :> <<"I", "t", "a", "l", "i", "a">>)
  @@ ("italia" :> <<"i", "t", "a", "l", "i", "a">>)
  @@ ("Serie B" :> <<"S", "e", "r", "i", "e", " ", "B">>)
  @@ ("peru-serie_a" :> <<"p", "e", "r", "u", "-", "s", "e", "r", "i", "e", "_", "a">>)
  @@ ("italy-liga_x" :> <<"i", "t", "a", "l", "y", "-", "l", "i", "g", "a", "_", "x">>)

\* the string of a character sequence
Str(cs) == CHOOSE s \in KnownStrings : Chars[s] = cs

UpperToLower ==
  ("A" :> "a") @@ ("B" :> "b") @@ ("C" :> "c") @@ ("D" :> "d") @@ ("E" :> "e") @@ ("F" :> "f") @@ ("G" :> "g")
  @@ ("H" :> "h") @@ ("I" :> "i") @@ ("J" :> "j") @@ ("K" :> "k") @@ ("L" :> "l") @@ ("M" :> "m") @@ ("N" :> "n")
  @@ ("O" :> "o") @@ ("P" :> "p") @@ ("Q" :> "q") @@ ("R" :> "r") @@ ("S" :> "s") @@ ("T" :> "t") @@ ("U" :> "u")
  @@ ("V" :> "v") @@ ("W" :> "w") @@ ("X" :> "x") @@ ("Y" :> "y") @@ ("Z" :> "z")

\* str.lower(), on characters
Lower(cs) ==
  << >> \o [i \in 1..Len(cs) |-> IF cs[i] \in DOMAIN UpperToLower THEN UpperToLower[cs[i]] ELSE cs[i]]

\* Python's `sub in s`, on characters
Contains(cs, sub) ==
  \E i \in 0..(Len(cs) - Len(sub)) : \A j \in 1..Len(sub) : cs[i + j] = sub[j]

\* str.replace(a, b) for one-character a and b, on characters
Replace(cs, a, b) == << >> \o [i \in 1..Len(cs) |-> IF cs[i] = a THEN b ELSE cs[i]]

(***************************************************************************)
(* JSON files.  A file is [shape, ids] (ledger files) or [shape, monitored]*)
(* (leagues.json); shape "absent" is no file, "corrupt" a file json.load   *)
(* rejects, "list" a JSON array, "dict" a JSON object.                     *)
(***************************************************************************)
\* json.dump turns every dict key into a string; array items keep their type.
JsonKey(id) == StrId(id.v)

NoFile == [shape |-> "absent", ids |-> {}]
CorruptFile == [shape |-> "corrupt", ids |-> {}]
ListFile(ids) == [shape |-> "list", ids |-> ids]
DictFile(ids) == [shape |-> "dict", ids |-> {JsonKey(id) : id \in ids}]

\* load_json_file for the ledger files: the parsed value, or the default
\* when the file is missing or unreadable.
load_json_file(file, default) ==
  IF file.shape \in {"absent", "corrupt"} THEN default ELSE file

\* save_json_file: the write succeeds, or fails before the file was opened
\* for writing (file unchanged), or fails after the truncation (a file that
\* no longer parses).  The exception is swallowed in every case.
save_json_file(old, data, corrupt) == {data, old, corrupt}

\* The outcomes of one save_json_file call on the file called name.
WriteOutcomes(name, old, data, corrupt) ==
  IF name \in io_faults THEN save_json_file(old, data, corrupt) ELSE {data}

(***************************************************************************)
(* Match records.  A record of the feed is                                 *)
(*   [malformed, wrapped, id, tournament, homeScore, awayScore, status,    *)
(*    start_ts].                                                           *)
(* wrapped = TRUE is {"event": {id, homeScore, awayScore, status, time},   *)
(* "tournament": ...}; wrapped = FALSE is the flat shape {id, homeScore,   *)
(* ..., "tournament": ...}.  malformed is a record whose "event" is no     *)
(* object.  tournament is [k, uid, name, country]: k = "absent" when the   *)
(* record has no top-level "tournament"; uid is uniqueTournament.id, name  *)
(* the uniqueTournament (else tournament) name, country the category name. *)
(* A score is [k, current, display]: k = "dict" a nested object with       *)
(* optional current and display, k = "int" a bare number (in current),     *)
(* k = "none" null, k = "absent" no key.  status is [code, description,    *)
(* period, minute], description being [k, s] with s a string.  start_ts is *)
(* time.currentPeriodStartTimestamp, in seconds.                           *)
(***************************************************************************)
ScoreDict(cur, disp) == [k |-> "dict", current |-> cur, display |-> disp]
ScoreBare(n) == [k |-> "int", current |-> I(n), display |-> Absent]
ScoreNone == [k |-> "none", current |-> Absent, display |-> Absent]
ScoreAbsent == [k |-> "absent", current |-> Absent, display |-> Absent]

Desc(s) == [k |-> "str", s |-> s]
DescAbsent == [k |-> "absent", s |-> ""]
DescNone == [k |-> "none", s |-> ""]

\* lines 423-434: the score of one side.  A missing key is {} and gives 0;
\* a nested object gives current, else display, else 0 (a null current
\* stays null); a bare value gives itself, null giving 0.
ExtractScore(obj) ==
  IF obj.k \in {"dict", "absent"}
  THEN Get(obj.current, Get(obj.display, I(0)))
  ELSE IF obj.k = "none" THEN I(0) ELSE obj.current

\* line 437 with the opposite gate of a slip: both sides must have scored
ScoreGateBothSides(home_score, away_score) == home_score # I(0) /\ away_score # I(0)

\* line 437: the match is rejected unless it is 0-0
ScoreGate(home_score, away_score) == home_score # I(0) \/ away_score # I(0)

\* lines 445-453: the period, from status.period unless the description
\* or the code says first or second half
PeriodFrom(status, status_desc) ==
  IF Contains(status_desc, Chars["1st half"]) \/ status.code = I(6) THEN I(1)
  ELSE IF Contains(status_desc, Chars["2nd half"]) \/ status.code = I(7) THEN I(2)
  ELSE Get(status.period, I(0))

\* line 446: status.get('description', '').lower()
PeriodOf(status) == PeriodFrom(status, Lower(Chars[Get(status.description, Desc("")).s]))

\* int(x / 60): truncation towards zero
IntDiv60(x) == IF x >= 0 THEN x \div 60 ELSE -((-x) \div 60)

Max0(x) == IF x > 0 THEN x ELSE 0

\* lines 456-471: the minute, from the period start when there is one,
\* else status.minute
MinuteOf(match, period, now) ==
  IF Truthy(match.start_ts)
  THEN LET elapsed_minutes == IntDiv60(now - match.start_ts.v)
       IN IF period = I(2) THEN I(45 + Max0(elapsed_minutes)) ELSE I(Max0(elapsed_minutes))
  ELSE Get(match.status.minute, I(0))

\* line 474 asking for minute 40 in the first half
FirstHalfTestFrom40(period, minute) ==
  \/ period = I(1) /\ minute.k = "int" /\ minute.v >= 40
  \/ period = I(0) /\ minute.k = "int" /\ minute.v > 0 /\ minute.v <= 45

\* line 474 with a grace window: the second half up to minute 50 passes too
FirstHalfTestGrace(period, minute) ==
  \/ period = I(1)
  \/ period = I(2) /\ minute.k = "int" /\ minute.v <= 50
  \/ period = I(0) /\ minute.k = "int" /\ minute.v > 0 /\ minute.v <= 45

\* line 474 as its comment reads: period 1, or a minute of at most 45
FirstHalfTestUpTo45(period, minute) ==
  \/ period = I(1)
  \/ period = I(0) /\ minute.k = "int" /\ minute.v <= 45

\* line 474 with the upper bound exclusive
FirstHalfTestBelow45(period, minute) ==
  \/ period = I(1)
  \/ period = I(0) /\ minute.k = "int" /\ minute.v > 0 /\ minute.v < 45

\* line 474: period == 1 or (period == 0 and minute > 0 and minute <= 45);
\* comparing a null minute raises, which line 478 turns into False
FirstHalfTest(period, minute) ==
  \/ period = I(1)
  \/ period = I(0) /\ minute.k = "int" /\ minute.v > 0 /\ minute.v <= 45

\* lines 440-477, once the period is known
FirstHalfAt(match, period, now) == FirstHalfTest(period, MinuteOf(match, period, now))

\* lines 416-480.  A null description raises at .lower() and line 478
\* answers False.
is_match_0_0_first_half(match, now) ==
  IF ScoreGate(ExtractScore(match.homeScore), ExtractScore(match.awayScore)) THEN FALSE
  ELSE IF match.status.description.k = "none" THEN FALSE
  ELSE FirstHalfAt(match, PeriodOf(match.status), now)

(***************************************************************************)
(* The watch-list.  A league is [id, country_norm, league_norm,            *)
(* tournament_id]; country_input and league_input are only displayed.      *)
(***************************************************************************)
DefaultLeagueRows ==
  << [country_norm |-> "italy", league_norm |-> "serie a"],
     [country_norm |-> "italy", league_norm |-> "serie b"],
     [country_norm |-> "france", league_norm |-> "ligue 1"],
     [country_norm |-> "france", league_norm |-> "ligue 2"],
     [country_norm |-> "spain", league_norm |-> "la liga"],
     [country_norm |-> "spain", league_norm |-> "segunda division"],
     [country_norm |-> "germany", league_norm |-> "bundesliga"],
     [country_norm |-> "germany", league_norm |-> "2. bundesliga"],
     [country_norm |-> "england", league_norm |-> "premier league"],
     [country_norm |-> "england", league_norm |-> "championship"],
     [country_norm |-> "england", league_norm |-> "league one"],
     [country_norm |-> "england", league_norm |-> "league two"],
     [country_norm |-> "netherlands", league_norm |-> "eredivisie"],
     [country_norm |-> "switzerland", league_norm |-> "super league"],
     [country_norm |-> "estonia", league_norm |-> "meistriliiga"],
     [country_norm |-> "hong kong", league_norm |-> "premier league"],
     [country_norm |-> "luxembourg", league_norm |-> "national division"],
     [country_norm |-> "qatar", league_norm |-> "stars league"],
     [country_norm |-> "singapore", league_norm |-> "premier league"],
     [country_norm |-> "vietnam", league_norm |-> "v.league 1"],
     [country_norm |-> "norway", league_norm |-> "eliteserien"],
     [country_norm |-> "norway", league_norm |-> "obos-ligaen"],
     [country_norm |-> "iceland", league_norm |-> "urvalsdeild"],
     [country_norm |-> "iceland", league_norm |-> "1. deild"] >>

\* lines 355-398: the built-in list, each row given its id and no
\* tournament_id
get_default_leagues ==
  [i \in 1..Len(DefaultLeagueRows) |->
     [id |-> Str(Replace(Chars[DefaultLeagueRows[i].country_norm], " ", "_") \o <<"-">>
                 \o Replace(Chars[DefaultLeagueRows[i].league_norm], " ", "_")),
      country_norm |-> DefaultLeagueRows[i].country_norm,
      league_norm |-> DefaultLeagueRows[i].league_norm,
      tournament_id |-> None]]

NoLeaguesFile == [shape |-> "absent", monitored |-> << >>]
CorruptLeaguesFile == [shape |-> "corrupt", monitored |-> << >>]
\* lines 400-405: what save_leagues writes
LeaguesFile(leagues) == [shape |-> "dict", monitored |-> leagues]

\* lines 407-414
get_monitored_tournament_ids(leagues) ==
  {leagues[i].tournament_id : i \in {j \in 1..Len(leagues) : Truthy(leagues[j].tournament_id)}}

\* lines 497-505: a record without a top-level "tournament" reads as one
\* with empty names and no id
TournamentOf(tournament) ==
  IF tournament.k = "dict" THEN tournament
  ELSE [k |-> "dict", uid |-> Absent, name |-> "", country |-> ""]

\* lines 499-502: the lower-cased "<tournament name> - <country name>"
FullName(t) == Lower(Lower(Chars[t.name]) \o Chars[" - "] \o Lower(Chars[t.country]))

\* lines 512-519: the positions of the leagues whose two tokens both occur
\* in full_name
TokensOccur(full_name, leagues) ==
  {i \in 1..Len(leagues) :
     /\ leagues[i].country_norm # ""
     /\ leagues[i].league_norm # ""
     /\ Contains(full_name, Chars[leagues[i].country_norm])
     /\ Contains(full_name, Chars[leagues[i].league_norm])}

NameMatches(t, leagues) == TokensOccur(FullName(t), leagues)

MinOf(S) == CHOOSE x \in S : \A y \in S : x <= y

\* lines 505-509 without the test
MatchesByIdNever(t, leagues) == FALSE

\* lines 505-509: the competition-id test
MatchesById(t, leagues) ==
  Truthy(t.uid) /\ t.uid \in get_monitored_tournament_ids(leagues)

\* lines 519-524 without the test of line 521: the id is overwritten
BackfillOverwrites(t, leagues, i) ==
  [monitored |-> TRUE,
   leagues |-> IF Truthy(t.uid) THEN [leagues EXCEPT ![i].tournament_id = t.uid]
               ELSE leagues]

\* lines 519-524: the first league matched by name takes the record's
\* uniqueTournament id when it has none
Backfill(t, leagues, i) ==
  [monitored |-> TRUE,
   leagues |-> IF Truthy(t.uid) /\ ~Truthy(leagues[i].tournament_id)
               THEN [leagues EXCEPT ![i].tournament_id = t.uid]
               ELSE leagues]

\* lines 511-526: the match by name
CheckByName(t, leagues, hits) ==
  IF hits = {} THEN [monitored |-> FALSE, leagues |-> leagues]
  ELSE Backfill(t, leagues, MinOf(hits))

\* lines 494-529 answering True for every record
LeagueCheckAlways(tournament, leagues) == [monitored |-> TRUE, leagues |-> leagues]

\* lines 494-529: the answer, and the watch-list after the call
LeagueCheck(tournament, leagues) ==
  IF MatchesById(TournamentOf(tournament), leagues)
  THEN [monitored |-> TRUE, leagues |-> leagues]
  ELSE CheckByName(TournamentOf(tournament), leagues,
                   NameMatches(TournamentOf(tournament), leagues))

is_league_monitored(match, leagues) == LeagueCheck(match.tournament, leagues).monitored

(***************************************************************************)
(* check_matches, one record: lines 580-600.                               *)
(***************************************************************************)
\* lines 581-582: the id is read from the record's "event" object only
EventId(match) == IF match.wrapped THEN match.id ELSE Absent

\* line 599 without the test
AlreadySentNever(event_id, sent) == FALSE

\* line 599: if event_id in self.sent_matches
AlreadySent(event_id, sent) == event_id \in sent

\* The branch the loop body takes for one record, up to the await:
\*   "error"     the record raised (line 619)
\*   "no_id"     line 584      "not_monitored"  line 588
\*   "not_0_0"   line 592      "already_sent"   line 599
\*   "send"      the send_message of line 604 is awaited
Decide(match, now, sent, monitored) ==
  IF match.malformed THEN "error"
  ELSE IF ~Truthy(EventId(match)) THEN "no_id"
  ELSE IF ~monitored THEN "not_monitored"
  ELSE IF ~is_match_0_0_first_half(match, now) THEN "not_0_0"
  ELSE IF AlreadySent(EventId(match), sent) THEN "already_sent"
  ELSE "send"

(***************************************************************************)
(* The feed: _fetch_sofascore_json and SofaScoreAPI.get_live_matches,      *)
(* lines 181-309.                                                          *)
(* A JSON value is [k |-> "null"], [k |-> "number", n], [k |-> "string",   *)
(* text], [k |-> "array", items] or [k |-> "object", fields], fields being *)
(* a function from the keys present to their values.  A text (a response   *)
(* body, or the characters of a JSON string) is [valid, first, value]:     *)
(* valid says that json.loads accepts it, value is what it then returns,   *)
(* first is its first non-blank character.  No text of the model is blank. *)
(* A reply to a request is a network error or timeout (requests.get        *)
(* raises) or a response [status, text].                                   *)
(***************************************************************************)
JNull == [k |-> "null"]
JNumber(n) == [k |-> "number", n |-> n]
JString(text) == [k |-> "string", text |-> text]
JArray(items) == [k |-> "array", items |-> items]
JObject(fields) == [k |-> "object", fields |-> fields]
NoFields == << >>

\* the first character of the JSON text of a value
Opening(value) ==
  CASE value.k = "object" -> "{"
    [] value.k = "array" -> "["
    [] value.k = "string" -> "\""
    [] value.k = "number" -> "0"
    [] OTHER -> "n"

\* the JSON text of a value, and a text that is not JSON
JsonText(value) == [valid |-> TRUE, first |-> Opening(value), value |-> value]
Garbage(first) == [valid |-> FALSE, first |-> first, value |-> JNull]

NetworkError == [k |-> "raise"]
Response(status, text) == [k |-> "response", status |-> status, text |-> text]

\* Python truthiness: None, 0, "", [] and {} are falsy
JTruthy(value) ==
  CASE value.k = "null" -> FALSE
    [] value.k = "number" -> value.n # 0
    [] value.k = "string" -> value.text.first # ""
    [] value.k = "array" -> value.items # << >>
    [] value.k = "object" -> DOMAIN value.fields # {}

\* dict.get(key): None when the key is missing
JGet(object, key) == IF key \in DOMAIN object.fields THEN object.fields[key] ELSE JNull

\* lines 209-221 without the unwrapping: the wrapper is returned as it is
UnwrapNever(wrapper) == wrapper

\* lines 209-221: the JSON parsed from data.content when the proxy answers
\* with its wrapper and the content starts with "{" and parses; the
\* parsed body itself in every other case
Unwrap(wrapper) ==
  IF wrapper.k = "object" /\ "data" \in DOMAIN wrapper.fields
     /\ wrapper.fields["data"].k = "object"
     /\ "content" \in DOMAIN wrapper.fields["data"].fields
     /\ wrapper.fields["data"].fields["content"].k = "string"
     /\ wrapper.fields["data"].fields["content"].text.first = "{"
     /\ wrapper.fields["data"].fields["content"].text.valid
  THEN wrapper.fields["data"].fields["content"].text.value
  ELSE wrapper

\* lines 200-229: the proxied request.  A body that resp.json() rejects is
\* rejected by json.loads too.
ProxyFetch(reply) ==
  IF reply.k = "raise" THEN JNull
  ELSE IF reply.status = 200 /\ reply.text.valid THEN Unwrap(reply.text.value)
  ELSE JNull

\* line 192 falling back on every status that is not 200
NeedsProxyNot200(status) == status # 200

\* line 192: only a 403 goes on to the proxy
NeedsProxy(status) == status = 403

\* lines 181-235 for one URL, whose replies are [direct, proxy]: the value
\* returned (None is null) and whether the proxy was requested
fetch_sofascore_json(replies) ==
  IF replies.direct.k = "raise" THEN [data |-> JNull, proxied |-> FALSE]
  ELSE IF replies.direct.status = 200
  THEN [data |-> IF replies.direct.text.valid THEN replies.direct.text.value ELSE JNull,
        proxied |-> FALSE]
  ELSE IF NeedsProxy(replies.direct.status)
  THEN [data |-> ProxyFetch(replies.proxy), proxied |-> TRUE]
  ELSE [data |-> JNull, proxied |-> FALSE]

\* lines 185-207 with one retry of the direct request
RequestsForRetried(i, fetched) ==
  << [endpoint |-> i, via |-> "direct"], [endpoint |-> i, via |-> "direct"] >>
  \o (IF fetched.proxied THEN << [endpoint |-> i, via |-> "proxy"] >> ELSE << >>)

\* the requests made for the URL at position i, in order
RequestsFor(i, fetched) ==
  IF fetched.proxied THEN << [endpoint |-> i, via |-> "direct"], [endpoint |-> i, via |-> "proxy"] >>
  ELSE << [endpoint |-> i, via |-> "direct"] >>

\* line 300 reading "events" only
NormaliseEventsOnly(data) ==
  IF JTruthy(JGet(data, "events")) THEN JGet(data, "events") ELSE JArray(<< >>)

\* line 300: data.get("events") or data.get("results") or []
Normalise(data) ==
  IF JTruthy(JGet(data, "events")) THEN JGet(data, "events")
  ELSE IF JTruthy(JGet(data, "results")) THEN JGet(data, "results")
  ELSE JArray(<< >>)

\* lines 307-309 letting the exception out
LiveExceptionRaised(requests) ==
  [result |-> JArray(<< >>), outcome |-> "exception", raised |-> TRUE, requests |-> requests]

\* lines 307-309: an exception in the loop is logged and [] is returned
LiveException(requests) ==
  [result |-> JArray(<< >>), outcome |-> "exception", raised |-> FALSE, requests |-> requests]

\* lines 305-306 returning a record although no URL gave one
LiveExhaustedStale(requests) ==
  [result |-> JArray(<< JNull >>), outcome |-> "exhausted", raised |-> FALSE,
   requests |-> requests]

\* lines 305-306: no URL gave events
LiveExhausted(requests) ==
  [result |-> JArray(<< >>), outcome |-> "exhausted", raised |-> FALSE, requests |-> requests]

RECURSIVE LiveFrom(_, _, _)
\* lines 295-303 for the value one URL gave; data.get on a value that is
\* not an object raises
LiveStep(feed, i, requests, data) ==
  IF ~JTruthy(data) THEN LiveFrom(feed, i + 1, requests)
  ELSE IF data.k # "object" THEN LiveException(requests)
  ELSE IF JTruthy(Normalise(data))
  THEN [result |-> Normalise(data), outcome |-> "events", raised |-> FALSE,
        requests |-> requests]
  ELSE LiveFrom(feed, i + 1, requests)

\* lines 294-306: the loop over the URLs from position i on
LiveFrom(feed, i, requests) ==
  IF i > Len(feed) THEN LiveExhausted(requests)
  ELSE LiveStep(feed, i, requests \o RequestsFor(i, fetch_sofascore_json(feed[i])),
                fetch_sofascore_json(feed[i]).data)

\* lines 284-309.  feed[i] holds the replies of the i-th URL of line 288:
\* events/live, events/inplay, livescore.
get_live_matches(feed) == LiveFrom(feed, 1, << >>)

(***************************************************************************)
(* Inputs of the model.                                                    *)
(***************************************************************************)
FeedIds == {I(101), I(202)}

StatusOf(code, description, period, minute) ==
  [code |-> code, description |-> description, period |-> period, minute |-> minute]

SerieA == [k |-> "dict", uid |-> I(23), name |-> "Serie A", country |-> "Italy"]
LigaX == [k |-> "dict", uid |-> I(77), name |-> "Liga X", country |-> "Peru"]
NoTournament == [k |-> "absent", uid |-> Absent, name |-> "", country |-> ""]

Match(wrapped, id, tournament, home, away, status, start_ts) ==
  [malformed |-> FALSE, wrapped |-> wrapped, id |-> id, tournament |-> tournament,
   homeScore |-> home, awayScore |-> away, status |-> status, start_ts |-> start_ts]

Zero == ScoreDict(I(0), I(0))
One == ScoreDict(I(1), I(1))
FirstHalfStatus == StatusOf(I(6), Desc("1st half"), Absent, Absent)
SecondHalfStatus == StatusOf(I(7), Desc("2nd half"), Absent, Absent)

\* a record whose "event" is not an object: reading it raises
MalformedMatch ==
  [Match(TRUE, Absent, NoTournament, ScoreAbsent, ScoreAbsent,
         StatusOf(Absent, DescAbsent, Absent, Absent), Absent) EXCEPT !.malformed = TRUE]

\* The records a fetched list is made of: the two events in a watched and
\* in an unwatched competition, 0-0 in the first half, 0-0 in the second
\* half and 1-0 in the first half; a record without id; the flat shape;
\* a malformed record.
FeedMatches ==
  {Match(TRUE, id, t, c[1], Zero, c[2], Absent) :
     id \in FeedIds, t \in {SerieA, LigaX},
     c \in {<<Zero, FirstHalfStatus>>, <<Zero, SecondHalfStatus>>, <<One, FirstHalfStatus>>}}
  \cup {Match(TRUE, Absent, SerieA, Zero, Zero, FirstHalfStatus, Absent),
        Match(FALSE, I(101), SerieA, Zero, Zero, FirstHalfStatus, Absent),
        MalformedMatch}

FeedTournaments == {SerieA, LigaX, NoTournament}

\* The replies of the three URLs in a cycle of Spec.  The list served
\* stands for the records by its length only: the records themselves are
\* drawn from FeedMatches as the loop reaches them.
Down == [direct |-> NetworkError, proxy |-> NetworkError]
Serving(value) ==
  [direct |-> Response(200, JsonText(JObject("events" :> value))), proxy |-> NetworkError]
Listing(n) == JArray([j \in 1..n |-> JNumber(j)])

\* every URL down; the first URL serving 0..MaxMatches records; the first
\* URL serving a number where the list should be
FeedScenarios ==
  {<< Down, Down, Down >>, << Serving(JNumber(7)), Down, Down >>}
  \cup {<< Serving(Listing(n)), Down, Down >> : n \in 0..MaxMatches}

\* what get_live_matches gives in a cycle of Spec
FeedResults == {get_live_matches(feed) : feed \in FeedScenarios}

\* sent_matches.json at the first start: none, the legacy array
\* ["101", "202"], the keyed object {"101": ..., "202": ...}
LegacyFile == ListFile({StrId(101), StrId(202)})
KeyedFile == DictFile({I(101), I(202)})
InitialSentFiles == {NoFile, LegacyFile, KeyedFile}

(***************************************************************************)
(* MatchMonitor.__init__: lines 324-353.                                   *)
(***************************************************************************)
\* lines 329-335 taking nothing from the file
LoadSentNothing(file) == {}

\* lines 329-335: a list gives its items, an object its keys
LoadSent(file) ==
  LET sent_data == load_json_file(file, ListFile({}))
  IN IF sent_data.shape \in {"list", "dict"} THEN sent_data.ids ELSE {}

\* line 337: the keys of the loaded object
LoadActive(file) == load_json_file(file, DictFile({})).ids

\* lines 340-353 without the default: the list of the file, or none
LoadLeaguesNoDefault(file) == file.monitored

\* lines 340-353 without the test of line 344: the persisted list, empty
\* or not
LoadLeaguesKeepsEmpty(file) ==
  IF file.shape = "dict" THEN file.monitored ELSE get_default_leagues

\* lines 340-353: the persisted list when it is not empty
LoadLeagues(file) ==
  IF file.shape = "dict" /\ file.monitored # << >> THEN file.monitored
  ELSE get_default_leagues

\* lines 346-347, 352-353: the default list is written back
LeaguesFileAfterInit(file) ==
  IF file.shape = "dict" /\ file.monitored # << >> THEN {file}
  ELSE WriteOutcomes("leagues.json", file, LeaguesFile(get_default_leagues),
                     CorruptLeaguesFile)

IdleProbe ==
  [match |-> MalformedMatch, now |-> 0, done |-> FALSE, result |-> FALSE, outcome |-> "none"]

IdleCall == [feed |-> << >>, done |-> FALSE, got |-> LiveExhausted(<< >>)]

\* the Telegram users of the model
Users == {1, 2}

\* context.user_data of a user who has started no dialogue: no
\* 'add_league_state', no 'add_league_country', no 'delete_league_selected'.
\* A selection is [k, v]: k = "absent" (no key) or "set", v its indices.
NoSelection == [k |-> "absent", v |-> {}]
NoCountry == [k |-> "absent", input |-> "", norm |-> ""]
NoUserData ==
  [u \in Users |->
     [add_league_state |-> "none", add_league_country |-> NoCountry,
      delete_league_selected |-> NoSelection]]

\* an invocation of check_matches that has not started
NoInvocation == [pc |-> "idle", live_len |-> 0, idx |-> 0, current |-> MalformedMatch]

\* What the behaviour has shown so far:
\*   notified[id]  notifications sent for id (send_message returned)
\*   lost[id]      restarts at which id was in sent_matches and was not
\*                 in the reloaded ledger
\*   restarts      restarts so far
\*   loaded        sent_matches.json as the last __init__ found it
\*   failed        ids whose send_message raised in this run and has not
\*                 succeeded since
\*   send_failed   send_message raised earlier in the running cycle
\*   fetched       how get_live_matches ended in the running or last
\*                 cycle: "none" (no cycle yet), "events", "exhausted",
\*                 "exception"
\*   commands      add-league and delete-league commands handled so far
\*   save          the last cycle's write of sent_matches.json: "none"
\*                 (no cycle ended since), "ok", "failed", "skipped" (the
\*                 cycle ended at line 627, before the writes)
\*   handled       the last update handled: its user, its handler, its
\*                 text and what the handler did
\*   shown         per user, the ids of the leagues that the last
\*                 delete-league keyboard sent to the user showed as
\*                 checked, and the buttons of the longest keyboard sent
\*   steps         updates handled so far in SpecDialogue
NoHistory ==
  [notified |-> [id \in FeedIds |-> 0],
   lost |-> [id \in FeedIds |-> 0],
   restarts |-> 0,
   loaded |-> NoFile,
   failed |-> {},
   send_failed |-> FALSE,
   fetched |-> "none",
   commands |-> 0,
   save |-> "none",
   handled |-> [user |-> 0, handler |-> "none", text |-> "", did |-> "none"],
   shown |-> [u \in Users |-> [checked |-> {}, buttons |-> 0]],
   steps |-> 0]

Init ==
  /\ io_faults \in {{"sent_matches.json"}, {"leagues.json"}}
  /\ sent_file \in InitialSentFiles
  /\ active_file = NoFile
  /\ leagues_file \in LeaguesFileAfterInit(NoLeaguesFile)
  /\ sent_matches = LoadSent(sent_file)
  /\ active_matches = LoadActive(active_file)
  /\ monitored_leagues = LoadLeagues(NoLeaguesFile)
  /\ pc = "idle"
  /\ live_len = 0
  /\ idx = 0
  /\ current = MalformedMatch
  /\ hist = [NoHistory EXCEPT !.loaded = sent_file]
  /\ probe = IdleProbe
  /\ call = IdleCall
  /\ user_data = NoUserData
  /\ second = NoInvocation

\* The process starts again: __init__ reloads the three files; the state
\* of the dialogues (user_data) is in memory only.
Startup ==
  /\ sent_matches' = LoadSent(sent_file)
  /\ active_matches' = LoadActive(active_file)
  /\ monitored_leagues' = LoadLeagues(leagues_file)
  /\ leagues_file' \in LeaguesFileAfterInit(leagues_file)
  /\ pc' = "idle"
  /\ live_len' = 0
  /\ idx' = 0
  /\ current' = MalformedMatch
  /\ hist' = [hist EXCEPT
       !.restarts = @ + 1,
       !.lost = [id \in FeedIds |->
                   IF id \in sent_matches /\ id \notin LoadSent(sent_file)
                   THEN hist.lost[id] + 1 ELSE hist.lost[id]],
       !.loaded = sent_file,
       !.failed = {},
       !.send_failed = FALSE,
       !.fetched = "none",
       !.save = "none"]
  /\ user_data' = NoUserData
  /\ second' = NoInvocation
  /\ UNCHANGED << sent_file, active_file, io_faults, probe, call >>

\* The process stops between two cycles and starts again.
Restart ==
  /\ pc = "idle"
  /\ hist.restarts < MaxRestarts
  /\ Startup

(***************************************************************************)
(* check_matches: lines 573-628.                                           *)
(***************************************************************************)
\* line 577: len(live_matches) is defined for a list and for an object
HasLen(value) == value.k \in {"array", "object"}
LenOf(value) ==
  IF value.k = "array" THEN Len(value.items) ELSE Cardinality(DOMAIN value.fields)

\* lines 576-577 for what get_live_matches gave: the loop starts, or
\* len() raises (as would an exception out of get_live_matches)
Fetched(got) ==
  /\ IF ~got.raised /\ HasLen(got.result)
     THEN pc' = "loop" /\ live_len' = LenOf(got.result)
     ELSE pc' = "raised" /\ live_len' = 0
  /\ hist' = [hist EXCEPT !.send_failed = FALSE, !.fetched = got.outcome, !.save = "none"]

\* lines 576-579: a tick of the job queue starts a cycle
Fetch ==
  /\ pc = "idle"
  /\ \E got \in FeedResults : Fetched(got)
  /\ idx' = 0
  /\ UNCHANGED << sent_matches, active_matches, monitored_leagues, sent_file,
                  active_file, leagues_file, current, io_faults, probe, call, user_data, second >>

\* lines 627-628, 634-635 letting the exception out of monitor_loop
AfterCycleExceptionEscapes(position) == "crashed"

\* lines 627-628: an exception outside the per-record try is logged by
\* check_matches; the job returns and waits for the next tick
AfterCycleException(position) == "idle"

\* lines 627-628: the exception of line 577 is caught; lines 624-625 are
\* not reached
CycleRaised ==
  /\ pc = "raised"
  /\ pc' = AfterCycleException(pc)
  /\ hist' = [hist EXCEPT !.save = "skipped"]
  /\ UNCHANGED << sent_matches, active_matches, monitored_leagues, sent_file,
                  active_file, leagues_file, live_len, idx, current, io_faults, probe, call, user_data, second >>

\* lines 594-595 finding the key that json.dump made of the id as well
ForgetActiveByKey(active, event_id) == active \ {event_id, JsonKey(event_id)}

\* lines 594-595
ForgetActive(active, event_id) == active \ {event_id}

\* lines 619-621 as if the try enclosed the loop: the rest is abandoned
AfterExceptionAbandon(i, n) == n

\* lines 619-621: the except clause continues with the next record
AfterException(i, n) == i + 1

\* lines 580-602 for one record, chk being what is_league_monitored
\* answers and leaves for its tournament
ProcessOne(match, d, chk) ==
  /\ monitored_leagues' = IF d \in {"error", "no_id"} THEN monitored_leagues
                          ELSE chk.leagues
  /\ IF monitored_leagues' # monitored_leagues
     THEN leagues_file' \in WriteOutcomes("leagues.json", leagues_file,
                                          LeaguesFile(monitored_leagues'),
                                          CorruptLeaguesFile)
     ELSE leagues_file' = leagues_file
  /\ active_matches' = IF d = "not_0_0"
                       THEN ForgetActive(active_matches, EventId(match))
                       ELSE active_matches
  /\ IF d = "send"
     THEN pc' = "sending" /\ current' = match /\ idx' = idx
     ELSE /\ pc' = "loop"
          /\ current' = current
          /\ idx' = IF d = "error" THEN AfterException(idx, live_len) ELSE idx + 1

\* No record of FeedMatches has a period start, so the clock is not read:
\* datetime.now() is 0 in the cycles of Spec.
ProcessTournament(tournament, chk) ==
  \E match \in {m \in FeedMatches : m.tournament = tournament} :
    ProcessOne(match, Decide(match, 0, sent_matches, chk.monitored), chk)

\* lines 580-602: one record, up to its continue or to the await.
\* is_league_monitored is called for the records that have an id; its
\* update of the watch-list is saved at once (line 523).
ProcessMatch ==
  /\ pc = "loop"
  /\ idx < live_len
  /\ \E tournament \in FeedTournaments :
       ProcessTournament(tournament, LeagueCheck(tournament, monitored_leagues))
  /\ UNCHANGED << sent_matches, sent_file, active_file, live_len, io_faults, hist, probe, call, user_data, second >>

\* line 610 lost: the id is not recorded
RecordNotifiedNot(sent, event_id) == sent

\* line 610
RecordNotified(sent, event_id) == sent \cup {event_id}

\* lines 604-617: send_message returned
SendOk ==
  /\ pc = "sending"
  /\ sent_matches' = RecordNotified(sent_matches, EventId(current))
  /\ active_matches' = active_matches \cup {EventId(current)}
  /\ idx' = idx + 1
  /\ pc' = "loop"
  /\ current' = MalformedMatch
  /\ hist' = [hist EXCEPT !.notified[EventId(current)] = @ + 1,
                          !.failed = @ \ {EventId(current)}]
  /\ UNCHANGED << monitored_leagues, sent_file, active_file, leagues_file, live_len,
                  io_faults, probe, call, user_data, second >>

\* lines 619-621 marking the match although the send failed
OnSendErrorRecorded(sent, event_id) == sent \cup {event_id}

\* lines 619-621: the except clause logs and records nothing
OnSendError(sent, event_id) == sent

\* lines 604, 619-621: send_message raised
SendFail ==
  /\ pc = "sending"
  /\ sent_matches' = OnSendError(sent_matches, EventId(current))
  /\ idx' = AfterException(idx, live_len)
  /\ pc' = "loop"
  /\ current' = MalformedMatch
  /\ hist' = [hist EXCEPT !.failed = @ \cup {EventId(current)}, !.send_failed = TRUE]
  /\ UNCHANGED << active_matches, monitored_leagues, sent_file,
                  active_file, leagues_file, live_len, io_faults, probe, call, user_data, second >>

\* line 624 writing the ids as the keys of an object
SentMatchesDumpKeyed(sent) == DictFile(sent)

\* line 624: list(self.sent_matches)
SentMatchesDump(sent) == ListFile(sent)

\* line 625
ActiveMatchesDump(active) == DictFile(active)

\* lines 623-625: the loop is over, both files are written
Save ==
  /\ pc = "loop"
  /\ idx >= live_len
  /\ sent_file' \in WriteOutcomes("sent_matches.json", sent_file,
                                   SentMatchesDump(sent_matches), CorruptFile)
  /\ active_file' \in WriteOutcomes("active_matches.json", active_file,
                                     ActiveMatchesDump(active_matches), CorruptFile)
  /\ pc' = "idle"
  /\ live_len' = 0
  /\ idx' = 0
  /\ \E ok \in BOOLEAN :
       /\ ok => sent_file' = SentMatchesDump(sent_matches)
       /\ ~ok => "sent_matches.json" \in io_faults /\ sent_file' \in {sent_file, CorruptFile}
       /\ hist' = [hist EXCEPT !.save = IF ok THEN "ok" ELSE "failed",
                               !.send_failed = FALSE]
  /\ UNCHANGED << sent_matches, active_matches, monitored_leagues, leagues_file, current,
                  io_faults, probe, call, user_data, second >>

Next == Fetch \/ CycleRaised \/ ProcessMatch \/ SendOk \/ SendFail \/ Save \/ Restart

Spec == Init /\ [][Next]_vars


(***************************************************************************)
(* The handlers that change the watch-list: text_message_handler (lines    *)
(* 1002-1134) and callback_handler (lines 1204-1224).  They run on the     *)
(* event loop that runs the job of check_matches, so one of them can run   *)
(* between two cycles or while a cycle is suspended in the await of line   *)
(* 604; a handler changes the list and calls save_leagues before its own   *)
(* first await.  The texts of the model have no blanks around them and     *)
(* single blanks between words.                                            *)
(***************************************************************************)
\* lines 145-162
CountryAliases ==
  ("italia" :> "italy") @@ ("inghilterra" :> "england") @@ ("francia" :> "france")
  @@ ("spagna" :> "spain") @@ ("germania" :> "germany") @@ ("olanda" :> "netherlands")
  @@ ("paesi bassi" :> "netherlands") @@ ("svizzera" :> "switzerland")
  @@ ("norvegia" :> "norway") @@ ("islanda" :> "iceland")
  @@ ("lussemburgo" :> "luxembourg") @@ ("qatar" :> "qatar")
  @@ ("singapore" :> "singapore") @@ ("vietnam" :> "vietnam")
  @@ ("estonia" :> "estonia") @@ ("hong kong" :> "hong kong")

\* lines 172-177
LeagueReplacements ==
  ("serie a" :> "serie a") @@ ("serie b" :> "serie b")
  @@ ("liga 1" :> "ligue 1") @@ ("liga 2" :> "ligue 2")

\* aliases.get(name, name)
Lookup(table, name) == IF name \in DOMAIN table THEN table[name] ELSE name

\* lines 140-163
normalize_country_name(name) ==
  IF name = "" THEN "" ELSE Lookup(CountryAliases, Str(Lower(Chars[name])))

\* lines 166-178
normalize_league_name(name) ==
  IF name = "" THEN "" ELSE Lookup(LeagueReplacements, Str(Lower(Chars[name])))

\* lines 1093-1096: the id of a league
LeagueId(country_norm, league_norm) ==
  Str(Replace(Chars[country_norm], " ", "_") \o <<"-">> \o Replace(Chars[league_norm], " ", "_"))

\* lines 1098-1118 without the test of lines 1099-1108
AppendLeagueAlways(leagues, country_norm, league_norm) ==
  Append(leagues, [id |-> LeagueId(country_norm, league_norm),
                   country_norm |-> country_norm,
                   league_norm |-> league_norm,
                   tournament_id |-> None])

\* lines 1098-1118: the league is appended unless its id is on the list
AppendLeague(leagues, country_norm, league_norm) ==
  IF \E i \in 1..Len(leagues) : leagues[i].id = LeagueId(country_norm, league_norm)
  THEN leagues
  ELSE Append(leagues, [id |-> LeagueId(country_norm, league_norm),
                        country_norm |-> country_norm,
                        league_norm |-> league_norm,
                        tournament_id |-> None])

\* the position, in leagues, of the j-th league that is kept
KeptAt(leagues, positions, j) ==
  CHOOSE i \in 1..Len(leagues) :
    i \notin positions /\ Cardinality({k \in 1..(i - 1) : k \notin positions}) = j - 1

\* lines 1212-1216 popping from the first selected index to the last
PopLeaguesAscending(leagues, positions) ==
  << >> \o [j \in 1..(Len(leagues) - Cardinality(
                {p \in positions :
                   p + Cardinality({q \in positions : q < p}) <= Len(leagues)})) |->
              leagues[KeptAt(leagues,
                {p + Cardinality({q \in positions : q < p}) : p \in positions}
                  \cap (1..Len(leagues)), j)]]

\* lines 1027-1031, 1212-1216: the leagues at the chosen positions are
\* popped, from the last to the first
PopLeagues(leagues, positions) ==
  << >> \o [j \in 1..(Len(leagues) - Cardinality(positions)) |->
              leagues[KeptAt(leagues, positions, j)]]

\* the texts sent in the add-league dialogue: a league that is not on the
\* built-in list and one that is
AddInputs == {<< "Peru", "Liga X" >>, << "Italia", "Serie A" >>}

\* the positions chosen in the delete-league dialogue: the first league,
\* the second, every league
DeleteChoices == {{1}, {2}, 1..(Len(DefaultLeagueRows) + MaxCommands)}

\* lines 1075-1119: the second text of the add-league dialogue, the first
\* having given the country (lines 1060-1072).  Neither normalised name of
\* the model is empty.
AddLeague ==
  /\ pc \in {"idle", "sending"}
  /\ hist.commands < MaxCommands
  /\ \E input \in AddInputs :
       monitored_leagues' = AppendLeague(monitored_leagues,
                                         normalize_country_name(input[1]),
                                         normalize_league_name(input[2]))
  /\ IF monitored_leagues' # monitored_leagues
     THEN leagues_file' \in WriteOutcomes("leagues.json", leagues_file,
                                          LeaguesFile(monitored_leagues'),
                                          CorruptLeaguesFile)
     ELSE leagues_file' = leagues_file
  /\ hist' = [hist EXCEPT !.commands = @ + 1]
  /\ UNCHANGED << sent_matches, active_matches, sent_file, active_file, pc, live_len, idx,
                  current, io_faults, probe, call, user_data, second >>

\* lines 1014-1033 and 1205-1218: the positions that are on the list are
\* removed and the list is saved; nothing is done when none is
DeleteLeagues ==
  /\ pc \in {"idle", "sending"}
  /\ hist.commands < MaxCommands
  /\ \E choice \in DeleteChoices :
       /\ choice \cap (1..Len(monitored_leagues)) # {}
       /\ monitored_leagues' =
            PopLeagues(monitored_leagues, choice \cap (1..Len(monitored_leagues)))
  /\ leagues_file' \in WriteOutcomes("leagues.json", leagues_file,
                                     LeaguesFile(monitored_leagues'), CorruptLeaguesFile)
  /\ hist' = [hist EXCEPT !.commands = @ + 1]
  /\ UNCHANGED << sent_matches, active_matches, sent_file, active_file, pc, live_len, idx,
                  current, io_faults, probe, call, user_data, second >>

(***************************************************************************)
(* SpecCommands: the cycles of check_matches with the two handlers, in a   *)
(* run that starts without files and whose writes succeed.                 *)
(***************************************************************************)
InitCommands ==
  /\ io_faults = {}
  /\ sent_file = NoFile
  /\ active_file = NoFile
  /\ leagues_file \in LeaguesFileAfterInit(NoLeaguesFile)
  /\ sent_matches = LoadSent(sent_file)
  /\ active_matches = LoadActive(active_file)
  /\ monitored_leagues = LoadLeagues(NoLeaguesFile)
  /\ pc = "idle"
  /\ live_len = 0
  /\ idx = 0
  /\ current = MalformedMatch
  /\ hist = NoHistory
  /\ probe = IdleProbe
  /\ call = IdleCall
  /\ user_data = NoUserData
  /\ second = NoInvocation

NextCommands ==
  \/ Fetch \/ CycleRaised \/ ProcessMatch \/ SendOk \/ SendFail \/ Save
  \/ AddLeague \/ DeleteLeagues

SpecCommands == InitCommands /\ [][NextCommands]_vars

(***************************************************************************)
(* SpecCrash: the cycles of check_matches in a process that can stop at    *)
(* any point of a cycle, not only between two cycles, and start again.     *)
(* The run starts without files and its writes succeed.                    *)
(***************************************************************************)
\* The process stops while a cycle is running (in the loop, or suspended in
\* the await of line 604) and starts again: what the cycle had put in
\* memory is gone, lines 624-625 were not reached.
Crash ==
  /\ pc \in {"loop", "sending", "raised"}
  /\ hist.restarts < MaxRestarts
  /\ Startup

NextCrash ==
  \/ Fetch \/ CycleRaised \/ ProcessMatch \/ SendOk \/ SendFail \/ Save
  \/ Restart \/ Crash

SpecCrash == InitCommands /\ [][NextCrash]_vars

(***************************************************************************)
(* SpecOverlap: two invocations of check_matches on the one event loop.    *)
(* The job queue is given monitor_loop to run every POLL_INTERVAL seconds  *)
(* (lines 1311-1319); get_live_matches blocks, so an invocation gives the  *)
(* loop away only in the await of line 604 or by ending.  pc, live_len,    *)
(* idx and current are those of the invocation that runs, second holds     *)
(* the other one.  The run starts without files and its writes succeed.    *)
(***************************************************************************)
\* The running invocation is suspended in its send, or has ended, and the
\* event loop goes on with the other one.
Switch ==
  /\ pc \in {"idle", "sending"}
  /\ second.pc \in {"idle", "sending"}
  /\ pc' = second.pc
  /\ live_len' = second.live_len
  /\ idx' = second.idx
  /\ current' = second.current
  /\ second' = [pc |-> pc, live_len |-> live_len, idx |-> idx, current |-> current]
  /\ UNCHANGED << sent_matches, active_matches, monitored_leagues, sent_file, active_file,
                  leagues_file, io_faults, hist, probe, call, user_data >>

NextOverlap ==
  \/ Fetch \/ CycleRaised \/ ProcessMatch \/ SendOk \/ SendFail \/ Save
  \/ Switch

SpecOverlap == InitCommands /\ [][NextOverlap]_vars

(***************************************************************************)
(* SpecWatch: the watch-list under is_league_monitored, the two handlers   *)
(* and restarts, in a run whose writes of leagues.json may fail.  The      *)
(* records looked up are 0-0 first-half records of the tournaments below.  *)
(***************************************************************************)
Tournament(uid, name, country) ==
  [k |-> "dict", uid |-> uid, name |-> name, country |-> country]

\* Serie A under its id 23, under another id, without id and with id 0;
\* the id 23 under other names, on the list (Serie B) and not (Liga X);
\* Liga X; a record without tournament
WatchTournaments ==
  {SerieA, Tournament(I(24), "Serie A", "Italy"), Tournament(Absent, "Serie A", "Italy"),
   Tournament(I(0), "Serie A", "Italy"), Tournament(I(23), "Serie B", "Italy"),
   Tournament(I(23), "Liga X", "Peru"), LigaX, NoTournament}

InitWatch ==
  /\ io_faults = {"leagues.json"}
  /\ sent_file = NoFile
  /\ active_file = NoFile
  /\ leagues_file \in LeaguesFileAfterInit(NoLeaguesFile)
  /\ sent_matches = LoadSent(sent_file)
  /\ active_matches = LoadActive(active_file)
  /\ monitored_leagues = LoadLeagues(NoLeaguesFile)
  /\ pc = "idle"
  /\ live_len = 0
  /\ idx = 0
  /\ current = MalformedMatch
  /\ hist = NoHistory
  /\ probe = IdleProbe
  /\ call = IdleCall
  /\ user_data = NoUserData
  /\ second = NoInvocation

\* line 588: is_league_monitored is called for a record; lines 519-523
\* save the list when a league took the record's id
CheckedLeague(match, chk) ==
  /\ monitored_leagues' = chk.leagues
  /\ IF chk.leagues # monitored_leagues
     THEN leagues_file' \in WriteOutcomes("leagues.json", leagues_file,
                                          LeaguesFile(chk.leagues), CorruptLeaguesFile)
     ELSE leagues_file' = leagues_file
  /\ probe' = [match |-> match, now |-> 0, done |-> TRUE, result |-> chk.monitored,
               outcome |-> Decide(match, 0, sent_matches, chk.monitored)]

CheckLeague ==
  /\ \E t \in WatchTournaments :
       CheckedLeague(Match(TRUE, I(101), t, Zero, Zero, FirstHalfStatus, Absent),
                     LeagueCheck(t, monitored_leagues))
  /\ UNCHANGED << sent_matches, active_matches, sent_file, active_file, pc, live_len, idx,
                  current, io_faults, hist, call,
                  user_data, second >>

NextWatch == CheckLeague \/ AddLeague \/ DeleteLeagues \/ Restart

SpecWatch == InitWatch /\ [][NextWatch]_vars

(***************************************************************************)
(* SpecDialogue: the add-league and delete-league dialogues of the users,  *)
(* between the cycles of a run that starts without files and whose writes  *)
(* succeed.  Each action is one update handled; no handler awaits between  *)
(* its reads and its writes of user_data and of the watch-list.  Nothing   *)
(* in the program sets 'delete_league_state', so the branch of lines       *)
(* 1006-1041 is never taken.                                               *)
(***************************************************************************)
MaxDialogue == 6     \* updates handled in one behaviour

\* the texts the users send: countries and leagues, on and off the list
DialogueTexts == [country |-> {"Peru", "Italia"}, league |-> {"Liga X", "Serie A"}]

\* the indices of the buttons the users press: the first two leagues and
\* the last of the built-in list
ToggleIndices == {0, 1, Len(DefaultLeagueRows) - 1}

\* lines 1106-1107, 1121-1122 leaving the dialogue open
AfterAddKeepsFlow(data) == data

\* lines 1106-1107, 1121-1122: both keys of the add dialogue are popped
AfterAdd(data) ==
  [data EXCEPT !.add_league_state = "none", !.add_league_country = NoCountry]

\* lines 959-967, 1166-1172: the keyboard sent for a selection, with the
\* leagues it shows checked and its buttons
Keyboard(u, selected) ==
  [checked |-> {monitored_leagues[i + 1].id :
                  i \in {j \in selected : j < Len(monitored_leagues)}},
   buttons |-> IF Len(monitored_leagues) > hist.shown[u].buttons
               THEN Len(monitored_leagues) ELSE hist.shown[u].buttons]

\* the update is recorded in the history
Handle(u, handler, text, did, shown) ==
  hist' = [hist EXCEPT !.steps = @ + 1,
                       !.handled = [user |-> u, handler |-> handler, text |-> text,
                                    did |-> did],
                       !.shown[u] = shown]

\* lines 917-934: /addLeague opens the dialogue at its first question
add_league_command ==
  /\ pc = "idle"
  /\ hist.steps < MaxDialogue
  /\ \E u \in Users :
       /\ user_data' = [user_data EXCEPT ![u].add_league_state = "await_country",
                                         ![u].add_league_country = NoCountry]
       /\ Handle(u, "addLeague", "", "asked", hist.shown[u])
  /\ UNCHANGED << sent_matches, active_matches, monitored_leagues, sent_file, active_file,
                  leagues_file, pc, live_len, idx, current, io_faults, probe, call, second >>

\* lines 1044-1123 for one text of user u
TextFrom(u, text) ==
  LET data == user_data[u]
      appended == AppendLeague(monitored_leagues, data.add_league_country.norm,
                               normalize_league_name(text))
  IN /\ data.add_league_state = "none" =>
          UNCHANGED << user_data, monitored_leagues, leagues_file >>
     /\ data.add_league_state = "await_country" =>
          /\ user_data' = [user_data EXCEPT
               ![u].add_league_state = "await_league",
               ![u].add_league_country =
                  [k |-> "set", input |-> text, norm |-> normalize_country_name(text)]]
          /\ UNCHANGED << monitored_leagues, leagues_file >>
     /\ data.add_league_state = "await_league" =>
          /\ monitored_leagues' = appended
          /\ IF appended # monitored_leagues
             THEN leagues_file' \in WriteOutcomes("leagues.json", leagues_file,
                                                  LeaguesFile(appended), CorruptLeaguesFile)
             ELSE leagues_file' = leagues_file
          /\ user_data' = [user_data EXCEPT ![u] = AfterAdd(data)]
     /\ Handle(u, "text", text,
               IF data.add_league_state = "none" THEN "nothing"
               ELSE IF data.add_league_state = "await_country" THEN "asked"
               ELSE IF appended # monitored_leagues THEN "appended" ELSE "duplicate",
               hist.shown[u])

\* lines 1002-1134: a text of a user; the user answers the question asked
text_message_handler ==
  /\ pc = "idle"
  /\ hist.steps < MaxDialogue
  /\ \E u \in Users :
       \E text \in IF user_data[u].add_league_state = "await_country"
                   THEN DialogueTexts.country
                   ELSE IF user_data[u].add_league_state = "await_league"
                   THEN DialogueTexts.league
                   ELSE DialogueTexts.country \cup DialogueTexts.league :
         TextFrom(u, text)
  /\ UNCHANGED << sent_matches, active_matches, sent_file, active_file,
                  pc, live_len, idx, current, io_faults, probe, call, second >>

\* lines 937-1000: /deleteLeague sends the keyboard; a selection that is
\* there is kept (lines 950-951)
delete_league_command ==
  /\ pc = "idle"
  /\ hist.steps < MaxDialogue
  /\ \E u \in Users :
       IF monitored_leagues = << >>
       THEN /\ user_data' = user_data
            /\ Handle(u, "deleteLeague", "", "nothing", hist.shown[u])
       ELSE /\ user_data' = [user_data EXCEPT ![u].delete_league_selected =
                               IF @.k = "absent" THEN [k |-> "set", v |-> {}] ELSE @]
            /\ Handle(u, "deleteLeague", "", "keyboard",
                      Keyboard(u, user_data[u].delete_league_selected.v))
  /\ UNCHANGED << sent_matches, active_matches, monitored_leagues, sent_file, active_file,
                  leagues_file, pc, live_len, idx, current, io_faults, probe, call, second >>

\* lines 1158-1198: a button of a keyboard sent to the user is pressed; its
\* index enters or leaves the selection and the keyboard is sent anew
delete_league_toggle ==
  /\ pc = "idle"
  /\ hist.steps < MaxDialogue
  /\ \E u \in Users :
       \E index \in {i \in ToggleIndices : i < hist.shown[u].buttons} :
         \E selected \in {IF index \in user_data[u].delete_league_selected.v
                           THEN user_data[u].delete_league_selected.v \ {index}
                           ELSE user_data[u].delete_league_selected.v \cup {index}} :
           /\ user_data' = [user_data EXCEPT
                              ![u].delete_league_selected = [k |-> "set", v |-> selected]]
           /\ Handle(u, "toggle", "", "keyboard", Keyboard(u, selected))
  /\ UNCHANGED << sent_matches, active_matches, monitored_leagues, sent_file, active_file,
                  leagues_file, pc, live_len, idx, current, io_faults, probe, call, second >>

\* lines 1201-1224: the Save button is pressed; the leagues at the selected
\* indices that the list has are popped
delete_league_save ==
  /\ pc = "idle"
  /\ hist.steps < MaxDialogue
  /\ \E u \in Users :
       /\ hist.shown[u].buttons > 0
       /\ IF user_data[u].delete_league_selected.v = {}
          THEN /\ user_data' = [user_data EXCEPT
                                  ![u].delete_league_selected = [k |-> "set", v |-> {}]]
               /\ UNCHANGED << monitored_leagues, leagues_file >>
               /\ Handle(u, "save", "", "nothing", hist.shown[u])
          ELSE /\ monitored_leagues' =
                    PopLeagues(monitored_leagues,
                               {i + 1 : i \in user_data[u].delete_league_selected.v}
                                 \cap (1..Len(monitored_leagues)))
               /\ leagues_file' \in WriteOutcomes("leagues.json", leagues_file,
                                                  LeaguesFile(monitored_leagues'),
                                                  CorruptLeaguesFile)
               /\ user_data' = [user_data EXCEPT ![u].delete_league_selected = NoSelection]
               /\ Handle(u, "save", "", "removed", [hist.shown[u] EXCEPT !.checked = {}])
  /\ UNCHANGED << sent_matches, active_matches, sent_file, active_file,
                  pc, live_len, idx, current, io_faults, probe, call, second >>

\* lines 1227-1230: the Cancel button is pressed
delete_league_cancel ==
  /\ pc = "idle"
  /\ hist.steps < MaxDialogue
  /\ \E u \in Users :
       /\ hist.shown[u].buttons > 0
       /\ user_data' = [user_data EXCEPT ![u].delete_league_selected = NoSelection]
       /\ Handle(u, "cancel", "", "cancelled", [hist.shown[u] EXCEPT !.checked = {}])
  /\ UNCHANGED << sent_matches, active_matches, monitored_leagues, sent_file, active_file,
                  leagues_file, pc, live_len, idx, current, io_faults, probe, call, second >>

NextDialogue ==
  \/ add_league_command \/ text_message_handler \/ delete_league_command
  \/ delete_league_toggle \/ delete_league_save \/ delete_league_cancel

SpecDialogue == InitCommands /\ [][NextDialogue]_vars

(***************************************************************************)
(* SpecClassify: the classifier and the loop body on one record.  The      *)
(* record is watched (Serie A, Italy), carries the event id 101 in its     *)
(* "event" object and meets a monitor that has notified nothing; its       *)
(* scores, status and clock range over the sets below.                     *)
(***************************************************************************)
ProbeHomeScores ==
  {ScoreAbsent, ScoreNone, ScoreBare(0), ScoreBare(1), ScoreDict(I(0), Absent),
   ScoreDict(Absent, I(1)), ScoreDict(None, I(0))}

ProbeAwayScores == {ScoreAbsent, ScoreDict(I(0), I(0)), ScoreDict(Absent, I(2))}

ProbeStatuses ==
  {StatusOf(code, description, period, minute) :
     code \in {Absent, I(6), I(7), I(31)},
     description \in {DescAbsent, DescNone, Desc("1st half"), Desc("1ST HALF"),
                      Desc("2nd half"), Desc("Halftime")},
     period \in {Absent, I(0), I(1), I(2)},
     minute \in {Absent, I(39), I(45), I(46)}}

\* <<currentPeriodStartTimestamp, datetime.now()>>, in seconds: no period
\* start, a zero one, and a period started at 6000 read shortly before it
\* and 5, 6, 39, 44 and 46 minutes after it
ProbeClocks ==
  {<<Absent, 0>>, <<I(0), 9000>>, <<I(6000), 5900>>}
  \cup {<<I(6000), 6000 + 60 * m + 30>> : m \in {5, 6, 39, 44, 46}}

ProbeMatches ==
  {Match(TRUE, I(101), SerieA, home, away, status, Absent) :
     home \in ProbeHomeScores, away \in ProbeAwayScores, status \in ProbeStatuses}

InitClassify ==
  /\ io_faults = {}
  /\ sent_file = NoFile
  /\ active_file = NoFile
  /\ leagues_file = LeaguesFile(get_default_leagues)
  /\ sent_matches = LoadSent(NoFile)
  /\ active_matches = LoadActive(NoFile)
  /\ monitored_leagues = LoadLeagues(NoLeaguesFile)
  /\ pc = "idle"
  /\ live_len = 0
  /\ idx = 0
  /\ current = MalformedMatch
  /\ hist = NoHistory
  /\ \E m \in ProbeMatches, c \in ProbeClocks :
       probe = [match |-> [m EXCEPT !.start_ts = c[1]], now |-> c[2], done |-> FALSE,
                result |-> FALSE, outcome |-> "none"]
  /\ call = IdleCall
  /\ user_data = NoUserData
  /\ second = NoInvocation

\* is_match_0_0_first_half on the record, and the branch of the loop body
Classify ==
  /\ ~probe.done
  /\ probe' = [probe EXCEPT
       !.done = TRUE,
       !.result = is_match_0_0_first_half(probe.match, probe.now),
       !.outcome = Decide(probe.match, probe.now, sent_matches,
                          is_league_monitored(probe.match, monitored_leagues))]
  /\ UNCHANGED << sent_matches, active_matches, monitored_leagues, sent_file, active_file,
                  leagues_file, pc, live_len, idx, current, io_faults, hist, call,
                  user_data, second >>

NextClassify == Classify

SpecClassify == InitClassify /\ [][NextClassify]_vars

(***************************************************************************)
(* SpecFetch: one call of get_live_matches, the replies of the three URLs  *)
(* and of the proxy ranging over the sets below.  The list an endpoint     *)
(* serves holds one record that names the endpoint.                        *)
(***************************************************************************)
EventsOf(i) == JArray(<< JObject("endpoint" :> JNumber(i)) >>)
NoEvents == JArray(<< >>)

\* the bodies of a direct 200 response
DirectBodies(i) ==
  {Garbage("<"),
   JsonText(JNull),
   JsonText(NoEvents),
   JsonText(EventsOf(i)),
   JsonText(JObject(NoFields)),
   JsonText(JObject("events" :> EventsOf(i))),
   JsonText(JObject("events" :> NoEvents)),
   JsonText(JObject("results" :> EventsOf(i))),
   JsonText(JObject(("events" :> NoEvents) @@ ("results" :> EventsOf(i)))),
   JsonText(JObject("events" :> JNumber(7)))}

\* the proxy's wrapper around a page whose text is content
Wrapper(content) == JObject("data" :> JObject("content" :> JString(content)))

\* the replies of the proxy
ProxyReplies(i) ==
  {NetworkError,
   Response(500, Garbage("<")),
   Response(200, Garbage("T")),
   Response(200, JsonText(Wrapper(JsonText(JObject("events" :> EventsOf(i)))))),
   Response(200, JsonText(Wrapper(Garbage("{")))),
   Response(200, JsonText(Wrapper(JsonText(EventsOf(i))))),
   Response(200, JsonText(JObject("data" :> JNull))),
   Response(200, JsonText(JObject("events" :> EventsOf(i))))}

\* what the proxy would serve for a URL it is not asked for
ProxyReady(i) == Response(200, JsonText(JObject("events" :> EventsOf(i))))

\* the replies of one URL: every direct reply that is not a 403 with a
\* proxy that would serve the events, and the 403 with every proxy reply
EndpointReplies(i) ==
  {[direct |-> d, proxy |-> ProxyReady(i)] :
     d \in {NetworkError, Response(500, Garbage("<"))}
           \cup {Response(200, body) : body \in DirectBodies(i)}}
  \cup {[direct |-> Response(403, Garbage("<")), proxy |-> p] : p \in ProxyReplies(i)}

ProbeFeeds ==
  {<< a, b, c >> : a \in EndpointReplies(1), b \in EndpointReplies(2), c \in EndpointReplies(3)}

InitFetch ==
  /\ io_faults = {}
  /\ sent_file = NoFile
  /\ active_file = NoFile
  /\ leagues_file = LeaguesFile(get_default_leagues)
  /\ sent_matches = LoadSent(NoFile)
  /\ active_matches = LoadActive(NoFile)
  /\ monitored_leagues = LoadLeagues(NoLeaguesFile)
  /\ pc = "idle"
  /\ live_len = 0
  /\ idx = 0
  /\ current = MalformedMatch
  /\ hist = NoHistory
  /\ probe = IdleProbe
  /\ \E feed \in ProbeFeeds : call = [IdleCall EXCEPT !.feed = feed]
  /\ user_data = NoUserData
  /\ second = NoInvocation

\* line 576: live_matches = self.api.get_live_matches()
CallGetLiveMatches ==
  /\ ~call.done
  /\ call.feed # << >>
  /\ call' = [call EXCEPT !.done = TRUE, !.got = get_live_matches(call.feed)]
  /\ UNCHANGED << sent_matches, active_matches, monitored_leagues, sent_file, active_file,
                  leagues_file, pc, live_len, idx, current, io_faults, hist, probe,
                  user_data, second >>

NextFetch == CallGetLiveMatches

SpecFetch == InitFetch /\ [][NextFetch]_vars

(***************************************************************************)
(* Properties of the monitor (Spec).                                       *)
(***************************************************************************)
\* C1, as stated: across any sequence of poll cycles, restarts between
\* cycles included, at most one notification is sent for an event id.
NotifiedAtMostOnce == \A id \in FeedIds : hist.notified[id] <= 1

\* C1, as the code has it: an event id is notified at most once, plus once
\* for every restart at which the id, present in the running ledger, was
\* missing from the ledger reloaded from sent_matches.json (the write that
\* ended a cycle failed).
NotifiedOncePerLedger == \A id \in FeedIds : hist.notified[id] <= 1 + hist.lost[id]

\* After a restart that reloaded an id notified before it, a cycle has
\* completed and the id still has its single notification.
NotifiedOncePerLedgerWitness ==
  \E id \in FeedIds :
    /\ hist.restarts > 0
    /\ id \in LoadSent(hist.loaded)
    /\ hist.lost[id] = 0
    /\ hist.save = "ok"
    /\ hist.notified[id] = 1

\* the records of the feed that carry an id and qualify
Qualifying ==
  {m \in FeedMatches : Truthy(EventId(m)) /\ is_match_0_0_first_half(m, 0)}

\* C2: outside a restart, an id enters sent_matches or active_matches only
\* in the step in which send_message for that match returns; when
\* send_message raises, neither collection changes; and a record whose send
\* failed, when it is fetched again while watched, qualifying and absent
\* from sent_matches, is sent again.
RecordedOnlyAfterSend ==
  [][/\ \A id \in (sent_matches' \ sent_matches) \cup (active_matches' \ active_matches) :
          hist'.restarts = hist.restarts =>
            /\ pc = "sending"
            /\ EventId(current) = id
            /\ hist'.notified[id] = hist.notified[id] + 1
     /\ (pc = "sending" /\ hist'.notified = hist.notified) =>
          /\ sent_matches' = sent_matches
          /\ active_matches' = active_matches
          /\ EventId(current) \in hist'.failed
     /\ (pc = "loop" /\ hist.failed # {}) =>
          \A m \in Qualifying :
            (EventId(m) \in hist.failed /\ EventId(m) \notin sent_matches)
            => Decide(m, 0, sent_matches, TRUE) = "send"]_vars

\* The send of a match is awaited again in a cycle after the one in which
\* it failed.
RecordedOnlyAfterSendWitness ==
  /\ pc = "sending"
  /\ EventId(current) \in hist.failed
  /\ ~hist.send_failed
  /\ EventId(current) \notin sent_matches
  /\ EventId(current) \notin active_matches

\* C3: within a cycle, after a send failure or any other exception on a
\* record the loop goes on with the next record of the same list, the
\* cycle ends only when the whole list has been gone through, and a later
\* record that qualifies, is watched and is not yet notified is sent.
LaterMatchesProcessed ==
  [][/\ (pc \in {"sending", "loop"} /\ pc' = "loop") =>
          idx' = idx + 1 /\ live_len' = live_len
     /\ (pc = "loop" /\ pc' = "idle") => idx = live_len
     /\ (pc = "loop" /\ hist.send_failed /\ idx < live_len) =>
          \A m \in Qualifying :
            EventId(m) \notin sent_matches => Decide(m, 0, sent_matches, TRUE) = "send"]_vars

\* A send failed earlier in the running cycle and the send of a later
\* record, of another match, is awaited.
LaterMatchesProcessedWitness ==
  /\ pc = "sending"
  /\ hist.send_failed
  /\ EventId(current) \notin hist.failed
  /\ idx > 0

\* C8, as stated: after a start that found the legacy array ["101", "202"]
\* no notification is sent for the events 101 and 202.
LegacyLedgerBlocks ==
  (hist.restarts = 0 /\ hist.loaded = LegacyFile) =>
    \A id \in FeedIds : hist.notified[id] = 0

\* C9, as stated: the ids of a legacy array and the ids of a keyed object
\* are both kept from being notified again, and a successful write leaves
\* the keyed-object shape on disk.
BothShapesKeptAndWrittenKeyed ==
  /\ (hist.restarts = 0 /\ hist.loaded \in {LegacyFile, KeyedFile}) =>
       \A id \in FeedIds : JsonKey(id) \in hist.loaded.ids => hist.notified[id] = 0
  /\ hist.save = "ok" => sent_file.shape = "dict"

FailedFetchChangesNothing ==
  [][/\ (hist.fetched = "exhausted" /\ pc # "idle") =>
          /\ pc = "loop"
          /\ live_len = 0
          /\ pc' = "idle"
          /\ sent_matches' = sent_matches
          /\ active_matches' = active_matches
          /\ hist'.notified = hist.notified
     /\ (hist.fetched = "exhausted" /\ pc = "idle" /\ pc' = "loop") =>
          /\ idx' = 0
          /\ live_len' \in 0..MaxMatches
          /\ sent_matches' = sent_matches]_vars

\* A cycle in which every URL failed has ended, and the notification of an
\* earlier cycle is still in memory.
FailedFetchChangesNothingWitness ==
  /\ pc = "idle"
  /\ hist.fetched = "exhausted"
  /\ hist.save = "ok"
  /\ hist.restarts = 0
  /\ \E id \in FeedIds : hist.notified[id] = 1 /\ id \in sent_matches /\ id \in active_matches

\* C18: a failed write of the ledger or of the watch-list raises nothing
\* and leaves the in-memory sent_matches, active_matches and
\* monitored_leagues as they are; within a run sent_matches only grows, and
\* a notification is sent only for an id that is not in it, so a match
\* notified in a cycle whose save failed is not notified again in the run.
WriteFailureKeepsMemory ==
  [][/\ hist'.restarts = hist.restarts => sent_matches \subseteq sent_matches'
     /\ (pc = "loop" /\ pc' = "idle" /\ hist'.save = "failed") =>
          UNCHANGED << sent_matches, active_matches, monitored_leagues >>
     /\ (pc = "loop" /\ leagues_file' # leagues_file
           /\ leagues_file' # LeaguesFile(monitored_leagues')) =>
          /\ pc' \in {"loop", "sending"}
          /\ monitored_leagues' # monitored_leagues
          /\ get_monitored_tournament_ids(monitored_leagues)
               \subseteq get_monitored_tournament_ids(monitored_leagues')
     /\ \A id \in FeedIds :
          hist'.notified[id] > hist.notified[id] =>
            id \notin sent_matches /\ id \in sent_matches']_vars

\* The write that ended a cycle failed: the file lacks an id that was
\* notified in this run and that memory still holds.
WriteFailureKeepsMemoryWitness ==
  /\ pc = "idle"
  /\ hist.save = "failed"
  /\ hist.restarts = 0
  /\ \E id \in FeedIds :
       hist.notified[id] = 1 /\ id \in sent_matches /\ id \notin LoadSent(sent_file)

\* the records of the feed in the flat shape: the id is a field of the
\* record itself, beside the tournament, the scores and the status
FlatRecords == {m \in FeedMatches : ~m.malformed /\ ~m.wrapped /\ Truthy(m.id)}

\* C21, as stated: while a cycle goes through its list, a record in the
\* flat shape that is watched, qualifies and whose id is not in
\* sent_matches is taken to the send.
FlatRecordSent ==
  (pc = "loop" /\ idx < live_len) =>
    \A m \in FlatRecords :
      (/\ is_league_monitored(m, monitored_leagues)
       /\ is_match_0_0_first_half(m, 0)
       /\ m.id \notin sent_matches)
      => Decide(m, 0, sent_matches, is_league_monitored(m, monitored_leagues)) = "send"

\* the records of the feed whose "event" object carries no id
NoIdRecords == {m \in FeedMatches : ~m.malformed /\ m.wrapped /\ ~Truthy(m.id)}

\* C22, as stated: while a cycle goes through its list, a watched,
\* qualifying record without event id is identified all the same: it is
\* taken to the send, or found to be notified already.
NoIdRecordNotified ==
  (pc = "loop" /\ idx < live_len) =>
    \A m \in NoIdRecords :
      (is_league_monitored(m, monitored_leagues) /\ is_match_0_0_first_half(m, 0))
      => Decide(m, 0, sent_matches, is_league_monitored(m, monitored_leagues))
           \in {"send", "already_sent"}

\* C23: a send is awaited only for a record whose tournament is on the
\* watch-list, by its uniqueTournament id or by the country and league
\* tokens of one league both occurring in its full name; a record for which
\* is_league_monitored answers False is never taken to the send.
OnlyWatchedNotified ==
  /\ pc = "sending" =>
       \/ MatchesById(TournamentOf(current.tournament), monitored_leagues)
       \/ NameMatches(TournamentOf(current.tournament), monitored_leagues) # {}
  /\ (pc = "loop" /\ idx < live_len) =>
       \A m \in Qualifying : Decide(m, 0, sent_matches, FALSE) = "not_monitored"

\* The send of a Serie A record is awaited after an earlier record of the
\* cycle was passed over, the watch-list holding Serie A and not Liga X.
OnlyWatchedNotifiedWitness ==
  /\ pc = "sending"
  /\ idx > 0
  /\ current.tournament = SerieA
  /\ hist.notified = [id \in FeedIds |-> 0]
  /\ ~LeagueCheck(LigaX, monitored_leagues).monitored

\* a tracking entry of the match: its key as the loop writes it, or as
\* active_matches.json gives it back
HasEntry(active, event_id) == event_id \in active \/ JsonKey(event_id) \in active

\* C25, as stated: while a cycle goes through its list, a watched record
\* that no longer qualifies has no tracking entry left once the loop body
\* has dealt with it.
NonQualifyingForgotten ==
  (pc = "loop" /\ idx < live_len) =>
    \A m \in FeedMatches :
      Decide(m, 0, sent_matches, is_league_monitored(m, monitored_leagues)) = "not_0_0"
      => ~HasEntry(ForgetActive(active_matches, EventId(m)), EventId(m))

\* C26, as stated: after a cycle whose fetched list was empty, so that no
\* tracked match was in it, no match has a tracking entry.
TrackingEndsWithFeed ==
  (pc = "idle" /\ hist.fetched = "exhausted" /\ hist.save \in {"ok", "failed"}) =>
    active_matches = {}

\* C27: after a start that found no leagues.json the watch-list is the
\* built-in list: 24 leagues with pairwise distinct ids and no tournament
\* id; and save_leagues has been called on it, so that leagues.json holds
\* that list unless the write failed.
DefaultsWhenAbsent ==
  (/\ pc = "idle"
   /\ hist.fetched = "none"
   /\ hist.restarts = 0 \/ leagues_file.shape = "absent") =>
    /\ monitored_leagues = get_default_leagues
    /\ Len(monitored_leagues) = 24
    /\ \A i, j \in 1..Len(monitored_leagues) :
         i # j => monitored_leagues[i].id # monitored_leagues[j].id
    /\ \A i \in 1..Len(monitored_leagues) : monitored_leagues[i].tournament_id = None
    /\ monitored_leagues[1].id = "italy-serie_a"
    /\ leagues_file \in {LeaguesFile(monitored_leagues), NoLeaguesFile, CorruptLeaguesFile}
    /\ "leagues.json" \notin io_faults => leagues_file = LeaguesFile(monitored_leagues)

\* A restart has found no leagues.json, the write at the first start having
\* failed: the watch-list is the built-in one again, without the tournament
\* id it had taken in the run before.
DefaultsWhenAbsentWitness ==
  /\ pc = "idle"
  /\ hist.fetched = "none"
  /\ hist.restarts = 1
  /\ leagues_file.shape = "absent"
  /\ monitored_leagues = get_default_leagues
  /\ \E id \in FeedIds : hist.notified[id] = 1

\* C31: in the run that started without ledger files every key of
\* active_matches is in sent_matches: lines 610-611 add an id to both, and
\* nothing takes an id out of sent_matches.
ActiveWithinSent ==
  (hist.restarts = 0 /\ hist.loaded = NoFile) => active_matches \subseteq sent_matches

\* A cycle of the first run has ended with a match tracked, and so notified.
ActiveWithinSentWitness ==
  /\ hist.restarts = 0
  /\ hist.loaded = NoFile
  /\ pc = "idle"
  /\ hist.save = "ok"
  /\ active_matches # {}
  /\ \E id \in active_matches : hist.notified[id] = 1

\* C35: a start that finds sent_matches.json unreadable raises nothing and
\* begins with the empty notified set; from then on sent_matches holds
\* exactly the ids notified since that start, the first save that succeeds
\* leaves the file with those ids alone, and a qualifying watched match
\* that was notified before the start is sent again.
UnreadableLedgerStartsEmpty ==
  hist.loaded = CorruptFile =>
    /\ pc # "crashed"
    /\ hist.fetched = "none" => sent_matches = {}
    /\ sent_matches \subseteq FeedIds
    /\ \A id \in FeedIds : id \in sent_matches <=> hist.notified[id] > hist.lost[id]
    /\ (pc = "idle" /\ hist.save = "ok") => sent_file = ListFile(sent_matches)
    /\ \A m \in Qualifying :
         EventId(m) \notin sent_matches => Decide(m, 0, sent_matches, TRUE) = "send"

\* The ledger was unreadable at the restart; a match notified in the run
\* before has been notified again, another has not, and the cycle's save
\* has left the file with the one id.
UnreadableLedgerStartsEmptyWitness ==
  /\ hist.loaded = CorruptFile
  /\ pc = "idle"
  /\ hist.save = "ok"
  /\ \E id \in FeedIds :
       /\ hist.notified[id] = 2
       /\ hist.lost[id] = 1
       /\ sent_matches = {id}
       /\ sent_file = ListFile({id})
       /\ \E other \in FeedIds : hist.notified[other] = 1 /\ hist.lost[other] = 1

(***************************************************************************)
(* Properties of the monitor with the handlers (SpecCommands).             *)
(***************************************************************************)
\* C24, as stated: from the fetch of a cycle to its end the watch-list
\* answers the same for every tournament, a command handled while the cycle
\* waits for a send included: all records of the cycle are filtered
\* against the same list.
WatchListFixedInCycle ==
  [][(pc # "idle" /\ pc' # "idle") =>
       \A t \in FeedTournaments :
         LeagueCheck(t, monitored_leagues').monitored
           = LeagueCheck(t, monitored_leagues).monitored]_vars

(***************************************************************************)
(* Properties of the monitor that can stop in a cycle (SpecCrash).         *)
(***************************************************************************)
\* C32: sent_matches.json changes only in the save that ends a cycle, which
\* writes the ids in memory; when the process stops in a cycle, the new
\* process holds the ids of the last save and nothing else, so an id
\* notified in the interrupted cycle is not in its ledger, and a record
\* with that id, fetched watched and qualifying, is sent again.
UnsavedNotificationForgotten ==
  [][/\ sent_file' # sent_file =>
          pc = "loop" /\ pc' = "idle" /\ sent_file' = ListFile(sent_matches)
     /\ (hist'.restarts > hist.restarts /\ pc # "idle") =>
          /\ sent_matches' = sent_file.ids
          /\ \A id \in sent_matches \ sent_file.ids :
               /\ hist.notified[id] >= 1
               /\ id \notin sent_matches'
               /\ hist'.lost[id] = hist.lost[id] + 1
               /\ \A m \in Qualifying :
                    EventId(m) = id => Decide(m, 0, sent_matches', TRUE) = "send"]_vars

\* The process stopped after the send for a match and before the save of
\* that cycle, no write having failed; the match has been notified again
\* after the restart.
UnsavedNotificationForgottenWitness ==
  /\ io_faults = {}
  /\ hist.restarts = 1
  /\ \E id \in FeedIds : hist.notified[id] = 2 /\ hist.lost[id] = 1

\* C34: the entries of active_matches found at a start are keyed by
\* strings, the ids of the fetched records are numbers, so the removal of
\* lines 594-595 finds none of them: an entry that came through the file
\* stays in every later cycle of the run, the cycles that see its match
\* not qualifying included.
LoadedEntriesStay ==
  [][/\ hist'.restarts > hist.restarts => \A key \in active_matches' : key.k = "str"
     /\ hist'.restarts = hist.restarts =>
          \A key \in active_matches :
            key.k = "str" =>
              /\ key \in active_matches'
              /\ \A m \in FeedMatches :
                   /\ EventId(m) # key
                   /\ key \in ForgetActive(active_matches, EventId(m))]_vars

\* After a restart the entry "101" is in active_matches, a cycle has run
\* to its save, and the match is not tracked under its number: no send for
\* it happened in this run.
LoadedEntriesStayWitness ==
  /\ hist.restarts = 1
  /\ pc = "idle"
  /\ hist.save = "ok"
  /\ hist.fetched = "events"
  /\ StrId(101) \in active_matches
  /\ I(101) \notin active_matches
  /\ StrId(101) \in active_file.ids

(***************************************************************************)
(* Properties of two overlapping invocations (SpecOverlap).                *)
(***************************************************************************)
\* C33: an invocation enters its send only for an id that is not in
\* sent_matches and inserts nothing on the way; the id is inserted in the
\* step in which the send returns.  Between the two another invocation
\* passes the same test, so two invocations notify an id at most twice
\* between them, and can do so (the witness).
TestBeforeSendInsertAfter ==
  [][/\ (pc = "loop" /\ pc' = "sending") =>
          /\ EventId(current') \notin sent_matches
          /\ sent_matches' = sent_matches
     /\ sent_matches' # sent_matches =>
          /\ pc = "sending"
          /\ pc' = "loop"
          /\ sent_matches' = sent_matches \cup {EventId(current)}
          /\ hist'.notified[EventId(current)] = hist.notified[EventId(current)] + 1
     /\ \A id \in FeedIds : hist'.notified[id] <= 2]_vars

\* Both invocations passed the test of line 599 for the same id while
\* neither had inserted it, and both sends returned: the match was notified
\* twice in one run, no write having failed.
TestBeforeSendInsertAfterWitness ==
  /\ hist.restarts = 0
  /\ io_faults = {}
  /\ \E id \in FeedIds : hist.notified[id] = 2 /\ id \in sent_matches

(***************************************************************************)
(* Properties of the watch-list (SpecWatch).                               *)
(***************************************************************************)
\* the step is a call of is_league_monitored: no command, no restart
IsCheck == hist'.commands = hist.commands /\ hist'.restarts = hist.restarts

\* the tournament of the record looked up in the step
Checked == TournamentOf(probe'.match.tournament)

\* the record's uniqueTournament id is the tournament_id of a league
IdOnList(t, leagues) ==
  t.uid.k = "int" /\ t.uid.v # 0 /\ \E i \in 1..Len(leagues) : leagues[i].tournament_id = t.uid

\* the leagues whose country token and league token both occur in the
\* lower-cased "<tournament name> - <country name>"
BothIn(full_name, leagues) ==
  {i \in 1..Len(leagues) :
     /\ Contains(full_name, Chars[leagues[i].country_norm])
     /\ Contains(full_name, Chars[leagues[i].league_norm])}
NamedOnList(t, leagues) ==
  BothIn(Lower(Chars[t.name] \o Chars[" - "] \o Chars[t.country]), leagues)

\* C28: is_league_monitored answers True exactly when the record's
\* uniqueTournament id is the tournament_id of a league of the list, or the
\* two tokens of a league both occur in the record's full name; the id is
\* tested first, so a record matched by id leaves the list as it is
\* whatever its names match.
MonitoredExactly ==
  [][IsCheck =>
       /\ probe'.result = (IdOnList(Checked, monitored_leagues)
                           \/ NamedOnList(Checked, monitored_leagues) # {})
       /\ IdOnList(Checked, monitored_leagues) => monitored_leagues' = monitored_leagues]_vars

\* A record carrying the id 23 under names that are not on the list has
\* been found watched, the list holding the id 23 for Serie A.
MonitoredExactlyWitness ==
  /\ probe.done
  /\ probe.result
  /\ probe.match.tournament = Tournament(I(23), "Liga X", "Peru")
  /\ NamedOnList(probe.match.tournament, monitored_leagues) = {}
  /\ \E i \in 1..Len(monitored_leagues) :
       monitored_leagues[i].id = "italy-serie_a" /\ monitored_leagues[i].tournament_id = I(23)

\* the ids of the leagues of a list; the position of a league
LeagueIds(leagues) == {leagues[i].id : i \in 1..Len(leagues)}
PositionOf(leagues, id) == CHOOSE i \in 1..Len(leagues) : leagues[i].id = id
TournamentIdOf(leagues, id) == leagues[PositionOf(leagues, id)].tournament_id

\* C29, as stated: the tournament_id a league has taken stays with it as
\* long as the league is on the list.
BackfillKeptForEver ==
  [][\A id \in LeagueIds(monitored_leagues) \cap LeagueIds(monitored_leagues') :
       Truthy(TournamentIdOf(monitored_leagues, id)) =>
         TournamentIdOf(monitored_leagues', id) = TournamentIdOf(monitored_leagues, id)]_vars

\* C29, as the code has it: a league without tournament_id takes the
\* uniqueTournament id of a record only in a call of is_league_monitored
\* that did not match the record by id and in which the league is the
\* first one matched by name, and save_leagues is called; as long as a
\* league holds a tournament_id, every record with that uniqueTournament
\* id is watched whatever its names; a tournament_id that is set is changed
\* neither by a later call nor by a command that leaves the league on the
\* list.  A restart keeps it when leagues.json holds the list in memory;
\* after a save that failed the restart takes the list from the stale file
\* (or the built-in list) and the tournament_id is lost.
BackfillKept ==
  [][/\ \A i \in 1..Len(monitored_leagues) :
          Truthy(monitored_leagues[i].tournament_id) =>
            \A t \in WatchTournaments :
              t.uid = monitored_leagues[i].tournament_id
              => LeagueCheck(t, monitored_leagues).monitored
     /\ hist'.restarts = hist.restarts =>
          \A id \in LeagueIds(monitored_leagues) \cap LeagueIds(monitored_leagues') :
            Truthy(TournamentIdOf(monitored_leagues, id)) =>
              TournamentIdOf(monitored_leagues', id) = TournamentIdOf(monitored_leagues, id)
     /\ IsCheck =>
          /\ Len(monitored_leagues') = Len(monitored_leagues)
          /\ \A i \in 1..Len(monitored_leagues) :
               monitored_leagues'[i] # monitored_leagues[i] =>
                 /\ ~IdOnList(Checked, monitored_leagues)
                 /\ i \in NamedOnList(Checked, monitored_leagues)
                 /\ \A j \in NamedOnList(Checked, monitored_leagues) : i <= j
                 /\ ~Truthy(monitored_leagues[i].tournament_id)
                 /\ Truthy(Checked.uid)
                 /\ monitored_leagues'[i] =
                      [monitored_leagues[i] EXCEPT !.tournament_id = Checked.uid]
                 /\ leagues_file' \in {LeaguesFile(monitored_leagues'), leagues_file,
                                       CorruptLeaguesFile}
     /\ (hist'.restarts # hist.restarts /\ leagues_file = LeaguesFile(monitored_leagues)
           /\ monitored_leagues # << >>) =>
          monitored_leagues' = monitored_leagues]_vars

\* Serie A holds the id 23, a command has removed another league, and a
\* record carrying the id 23 under other names has been found watched.
BackfillKeptWitness ==
  /\ probe.done
  /\ probe.result
  /\ probe.match.tournament = Tournament(I(23), "Liga X", "Peru")
  /\ hist.commands = 1
  /\ hist.restarts = 0
  /\ "italy-serie_a" \in LeagueIds(monitored_leagues)
  /\ "italy-serie_b" \notin LeagueIds(monitored_leagues)
  /\ "peru-liga_x" \notin LeagueIds(monitored_leagues)
  /\ TournamentIdOf(monitored_leagues, "italy-serie_a") = I(23)

\* C36: a start that finds leagues.json with an empty 'monitored' list
\* takes the built-in list and writes it back (the write may fail); a
\* start that finds a list that is not empty takes it as it is and writes
\* nothing.  A watch-list emptied by deletions is the built-in list again
\* after a restart.
EmptyListNotKept ==
  [][hist'.restarts > hist.restarts =>
       /\ (leagues_file.shape = "dict" /\ leagues_file.monitored = << >>) =>
            /\ monitored_leagues' = get_default_leagues
            /\ leagues_file' \in {LeaguesFile(get_default_leagues), leagues_file,
                                  CorruptLeaguesFile}
       /\ (leagues_file.shape = "dict" /\ leagues_file.monitored # << >>) =>
            /\ monitored_leagues' = leagues_file.monitored
            /\ leagues_file' = leagues_file]_vars

\* Every league was deleted and the empty list saved; the process started
\* again with the built-in list, and its write of that list failed, so the
\* file still shows the empty list that was found.
EmptyListNotKeptWitness ==
  /\ hist.restarts = 1
  /\ hist.commands >= 1
  /\ leagues_file = LeaguesFile(<< >>)
  /\ monitored_leagues = get_default_leagues

(***************************************************************************)
(* Properties of the dialogues (SpecDialogue).                             *)
(***************************************************************************)
\* the step handles an update
Handles == hist'.steps > hist.steps
\* the state of user u's add dialogue
FlowOf(data, u) == data[u].add_league_state
\* the league that user u's dialogue makes of the text
LeagueOf(u, text) ==
  [id |-> LeagueId(user_data[u].add_league_country.norm, normalize_league_name(text)),
   country_norm |-> user_data[u].add_league_country.norm,
   league_norm |-> normalize_league_name(text),
   tournament_id |-> None]
\* no two leagues of the list have the same id
DistinctIds(leagues) == Cardinality(LeagueIds(leagues)) = Len(leagues)
\* user u's selection and the entries of the list it points at
SelectedBy(u) == user_data[u].delete_league_selected.v
InRange(u) == {i \in SelectedBy(u) : i < Len(monitored_leagues)}

\* C37: whatever the users do, in whatever order, no two leagues of the
\* watch-list have the same id; and the league text of an add dialogue
\* whose id is on the list leaves list and file as they are and closes the
\* dialogue.
UniqueLeagueIds ==
  [][/\ hist.steps = 0 => DistinctIds(monitored_leagues)
     /\ monitored_leagues' # monitored_leagues => DistinctIds(monitored_leagues')
     /\ (/\ Handles
         /\ hist'.handled.handler = "text"
         /\ FlowOf(user_data, hist'.handled.user) = "await_league"
         /\ LeagueOf(hist'.handled.user, hist'.handled.text).id
              \in LeagueIds(monitored_leagues)) =>
          /\ monitored_leagues' = monitored_leagues
          /\ leagues_file' = leagues_file
          /\ FlowOf(user_data', hist'.handled.user) = "none"
          /\ user_data'[hist'.handled.user].add_league_country = NoCountry]_vars

\* A user has gone through /addLeague, "Italia" and "Serie A": the league
\* is on the built-in list, nothing was appended, the dialogue is closed.
\* The other user has added a league meanwhile.
UniqueLeagueIdsWitness ==
  /\ hist.handled.handler = "text"
  /\ hist.handled.text = "Serie A"
  /\ hist.handled.did = "duplicate"
  /\ FlowOf(user_data, hist.handled.user) = "none"
  /\ Len(monitored_leagues) = Len(DefaultLeagueRows) + 1
  /\ leagues_file = LeaguesFile(monitored_leagues)

\* C38: the list grows only by the league text of a user whose dialogue is
\* at await_league, by the league made of that text and of the country
\* the user gave; a dialogue gets to await_country by /addLeague only, to
\* await_league from await_country by a text only, and is closed by the
\* league text, appended or rejected as a duplicate; a text of a user
\* with no dialogue changes neither the list nor any dialogue.
AppendOnlyThroughDialogue ==
  [][Handles =>
       /\ Len(monitored_leagues') > Len(monitored_leagues) =>
            /\ hist'.handled.handler = "text"
            /\ FlowOf(user_data, hist'.handled.user) = "await_league"
            /\ user_data[hist'.handled.user].add_league_country.k = "set"
            /\ monitored_leagues' =
                 Append(monitored_leagues, LeagueOf(hist'.handled.user, hist'.handled.text))
            /\ leagues_file' = LeaguesFile(monitored_leagues')
       /\ \A u \in Users :
            FlowOf(user_data', u) # FlowOf(user_data, u) =>
              /\ u = hist'.handled.user
              /\ \/ FlowOf(user_data', u) = "await_country"
                      /\ hist'.handled.handler = "addLeague"
                 \/ FlowOf(user_data', u) = "await_league"
                      /\ FlowOf(user_data, u) = "await_country"
                      /\ hist'.handled.handler = "text"
                 \/ FlowOf(user_data', u) = "none"
                      /\ FlowOf(user_data, u) = "await_league"
                      /\ hist'.handled.handler = "text"
       /\ (hist'.handled.handler = "text"
             /\ FlowOf(user_data, hist'.handled.user) = "none") =>
            UNCHANGED << monitored_leagues, leagues_file, user_data >>
       /\ (hist'.handled.handler = "text"
             /\ FlowOf(user_data, hist'.handled.user) = "await_league") =>
            /\ FlowOf(user_data', hist'.handled.user) = "none"
            /\ user_data'[hist'.handled.user].add_league_country = NoCountry]_vars

\* A user has gone through /addLeague, "Peru" and "Liga X": the league is
\* the last of the list and the dialogue is closed.
AppendOnlyThroughDialogueWitness ==
  /\ hist.steps = 3
  /\ hist.handled.did = "appended"
  /\ hist.handled.text = "Liga X"
  /\ Len(monitored_leagues) = Len(DefaultLeagueRows) + 1
  /\ monitored_leagues[Len(monitored_leagues)].id = "peru-liga_x"
  /\ user_data = NoUserData

\* C39: Save with a selection removes the entries at the selected indices
\* that the list has at that moment, and no other; the entries kept are
\* unchanged and in their order; the list is written and the user's
\* selection is gone.  Cancel drops the selection and leaves list and file.
\* Nothing else shortens the list.
SaveRemovesSelected ==
  [][Handles =>
       /\ (hist'.handled.handler = "save" /\ SelectedBy(hist'.handled.user) # {}) =>
            /\ LeagueIds(monitored_leagues') =
                 LeagueIds(monitored_leagues)
                   \ {monitored_leagues[i + 1].id : i \in InRange(hist'.handled.user)}
            /\ Len(monitored_leagues') =
                 Len(monitored_leagues) - Cardinality(InRange(hist'.handled.user))
            /\ \A a \in 1..Len(monitored_leagues') :
                 /\ monitored_leagues'[a] =
                      monitored_leagues[PositionOf(monitored_leagues, monitored_leagues'[a].id)]
                 /\ \A b \in 1..(a - 1) :
                      PositionOf(monitored_leagues, monitored_leagues'[b].id)
                        < PositionOf(monitored_leagues, monitored_leagues'[a].id)
            /\ leagues_file' = LeaguesFile(monitored_leagues')
            /\ user_data' = [user_data EXCEPT
                               ![hist'.handled.user].delete_league_selected = NoSelection]
       /\ hist'.handled.handler = "cancel" =>
            /\ user_data' = [user_data EXCEPT
                               ![hist'.handled.user].delete_league_selected = NoSelection]
            /\ UNCHANGED << monitored_leagues, leagues_file >>
       /\ Len(monitored_leagues') < Len(monitored_leagues) =>
            hist'.handled.handler = "save"]_vars

\* A user has selected the first two leagues and pressed Save: both are
\* gone, the third built-in league heads the list, the selection is gone.
SaveRemovesSelectedWitness ==
  /\ hist.steps = 4
  /\ hist.handled.handler = "save"
  /\ hist.handled.did = "removed"
  /\ Len(monitored_leagues) = Len(DefaultLeagueRows) - 2
  /\ monitored_leagues[1].id = "france-ligue_1"
  /\ leagues_file = LeaguesFile(monitored_leagues)
  /\ user_data[hist.handled.user].delete_league_selected = NoSelection

\* C40, as stated: the leagues that a Save removes are the leagues that the
\* last keyboard sent to that user showed as checked, whatever happened to
\* the list in between.
RemovedAreThoseShown ==
  [][(Handles /\ hist'.handled.handler = "save") =>
       LeagueIds(monitored_leagues) \ LeagueIds(monitored_leagues')
         = hist.shown[hist'.handled.user].checked]_vars

(***************************************************************************)
(* Properties of the classifier (SpecClassify).                            *)
(***************************************************************************)
ProbeHome == ExtractScore(probe.match.homeScore)
ProbeAway == ExtractScore(probe.match.awayScore)
ProbeZeroZero == ProbeHome = I(0) /\ ProbeAway = I(0)

\* the description, when there is one, is a string
ProbeReadable == probe.match.status.description.k # "none"

ProbePeriod == PeriodOf(probe.match.status)
ProbeMinute == MinuteOf(probe.match, ProbePeriod, probe.now)

\* the status carries the halftime code (31) or a halftime description
ProbeHalftime ==
  \/ probe.match.status.code = I(31)
  \/ Contains(Lower(Chars[probe.match.status.description.s]), Chars["halftime"])

\* C4: a record whose home or away score is not 0 does not qualify,
\* whatever its period, status and minute, and is not notified.
NonZeroNeverQualifies ==
  (probe.done /\ (ProbeHome # I(0) \/ ProbeAway # I(0))) =>
    probe.result = FALSE /\ probe.outcome = "not_0_0"

\* A 1-0 record in the first half has been classified.
NonZeroNeverQualifiesWitness ==
  /\ probe.done
  /\ ProbeHome = I(1)
  /\ ProbeAway = I(0)
  /\ ProbeReadable
  /\ ProbePeriod = I(1)
  /\ probe.result = FALSE

\* C5, as stated: a 0-0 match in the first half whose minute is below 40
\* does not qualify and is not notified.
FirstHalfEarlyRejected ==
  (probe.done /\ ProbeZeroZero /\ ProbeReadable /\ ProbePeriod = I(1)
     /\ ProbeMinute.k = "int" /\ ProbeMinute.v < 40) =>
    probe.result = FALSE /\ probe.outcome # "send"

\* C5, as the code has it: a 0-0 match whose status denotes the first half
\* qualifies at every minute, and when it is watched and not yet notified
\* its notification is sent.
FirstHalfAlwaysQualifies ==
  (probe.done /\ ProbeZeroZero /\ ProbeReadable /\ ProbePeriod = I(1)) =>
    probe.result = TRUE /\ probe.outcome = "send"

\* A 0-0 first-half record at a minute below 40 has been classified.
FirstHalfAlwaysQualifiesWitness ==
  /\ probe.done
  /\ ProbeZeroZero
  /\ ProbeReadable
  /\ ProbePeriod = I(1)
  /\ ProbeMinute.k = "int"
  /\ ProbeMinute.v < 40
  /\ ProbeMinute.v > 0
  /\ probe.result = TRUE

\* C6, as stated: a 0-0 match whose status carries a halftime code or
\* description qualifies, whatever its raw minute.
HalftimeQualifies ==
  (probe.done /\ ProbeZeroZero /\ ProbeReadable /\ ProbeHalftime) => probe.result = TRUE

\* C6, as the code has it: the halftime marker is not consulted.  A 0-0
\* match with a halftime code or description, no first- or second-half
\* marker and period 0 or none qualifies exactly when its minute is
\* between 1 and 45.
HalftimeByMinuteOnly ==
  (probe.done /\ ProbeZeroZero /\ ProbeReadable /\ ProbeHalftime /\ ProbePeriod = I(0)) =>
    (probe.result = TRUE <=>
       (ProbeMinute.k = "int" /\ ProbeMinute.v >= 1 /\ ProbeMinute.v <= 45))

\* A 0-0 record with the halftime code and description and no minute has
\* been classified, and does not qualify.
HalftimeByMinuteOnlyWitness ==
  /\ probe.done
  /\ ProbeZeroZero
  /\ probe.match.status.code = I(31)
  /\ probe.match.status.description = Desc("Halftime")
  /\ probe.match.status.period = Absent
  /\ probe.match.status.minute = Absent
  /\ probe.match.start_ts = Absent
  /\ probe.result = FALSE

\* C7, as stated: a 0-0 match in the second half qualifies when its minute
\* is at most 50 and does not qualify past minute 50.
SecondHalfGrace ==
  (probe.done /\ ProbeZeroZero /\ ProbeReadable /\ ProbePeriod = I(2)
     /\ ProbeMinute.k = "int") =>
    (probe.result = TRUE <=> ProbeMinute.v <= 50)

\* C7, as the code has it: a 0-0 match whose status denotes the second
\* half never qualifies, at minute 50 and below as past it, and is not
\* notified.
SecondHalfNeverQualifies ==
  (probe.done /\ ProbeZeroZero /\ ProbeReadable /\ ProbePeriod = I(2)) =>
    probe.result = FALSE /\ probe.outcome = "not_0_0"

\* A 0-0 second-half record at minute 50 has been classified.
SecondHalfNeverQualifiesWitness ==
  /\ probe.done
  /\ ProbeZeroZero
  /\ ProbeReadable
  /\ ProbePeriod = I(2)
  /\ ProbeMinute = I(50)
  /\ probe.result = FALSE

\* the wall-clock times of the model
ProbeTimes == {c[2] : c \in ProbeClocks}

\* the result depends on the clock only through lines 459-471: a 0-0
\* record with a period start whose status gives no period
ProbeTimed ==
  /\ ProbeZeroZero
  /\ ProbeReadable
  /\ Truthy(probe.match.start_ts)
  /\ ProbePeriod = I(0)

\* C19, as stated: the result of is_match_0_0_first_half on a record is
\* the same at every wall-clock time of evaluation.
ClockIndependent ==
  probe.done =>
    \A t \in ProbeTimes : is_match_0_0_first_half(probe.match, t) = probe.result

\* C19, as the code has it: the result is a function of the record and of
\* the wall-clock time.  It is the same at every time when the record has
\* no period start, a score that is not 0-0 or a status that gives the
\* period; a 0-0 record with a period start and no period qualifies
\* exactly while 1 to 45 whole minutes have passed since the period start.
ClockReadForUnknownPeriod ==
  probe.done =>
    /\ ~ProbeTimed =>
         \A t \in ProbeTimes : is_match_0_0_first_half(probe.match, t) = probe.result
    /\ ProbeTimed =>
         (probe.result = TRUE <=>
            (probe.now - probe.match.start_ts.v >= 60
             /\ probe.now - probe.match.start_ts.v < 46 * 60))

\* A 0-0 record with a period start and no period has been found to
\* qualify, and does not qualify at another time.
ClockReadForUnknownPeriodWitness ==
  /\ probe.done
  /\ ProbeTimed
  /\ probe.result = TRUE
  /\ \E t \in ProbeTimes : ~is_match_0_0_first_half(probe.match, t)

\* the record says nothing of period and minute: no status.period, no
\* first- or second-half code or description, no period start, no minute
ProbeInsufficient ==
  /\ probe.match.status.period = Absent
  /\ probe.match.status.code \notin {I(6), I(7)}
  /\ ~Contains(Lower(Chars[probe.match.status.description.s]), Chars["1st half"])
  /\ ~Contains(Lower(Chars[probe.match.status.description.s]), Chars["2nd half"])
  /\ ~Truthy(probe.match.start_ts)
  /\ probe.match.status.minute = Absent

\* C20: a record with no period, no first- or second-half marker, no
\* period start and no minute does not qualify: the classifier answers
\* False without raising and the loop body takes the branch that sends
\* nothing.
InsufficientNeverNotified ==
  (probe.done /\ ProbeInsufficient) =>
    probe.result = FALSE /\ probe.outcome = "not_0_0"

\* A 0-0 record with an empty status has been classified.
InsufficientNeverNotifiedWitness ==
  /\ probe.done
  /\ ProbeZeroZero
  /\ probe.match.status = StatusOf(Absent, DescAbsent, Absent, Absent)
  /\ probe.match.start_ts = Absent
  /\ probe.result = FALSE
  /\ probe.outcome = "not_0_0"

(***************************************************************************)
(* Properties of the feed (SpecFetch).                                     *)
(***************************************************************************)
Endpoints == 1..Len(call.feed)

\* the positions, in call.got.requests, of the requests of one kind for
\* the i-th URL
RequestsOf(i, via) ==
  {r \in 1..Len(call.got.requests) :
     call.got.requests[r] = [endpoint |-> i, via |-> via]}

Contacted(i) == RequestsOf(i, "direct") # {}

DirectIs(i, status) ==
  call.feed[i].direct.k = "response" /\ call.feed[i].direct.status = status

ProxyIs(i, status) ==
  call.feed[i].proxy.k = "response" /\ call.feed[i].proxy.status = status

\* the i-th URL gave nothing: a network error or timeout, a status that is
\* neither 200 nor 403, a 200 whose body is not JSON, or a 403 whose
\* proxied request failed in one of these ways
EndpointDown(i) ==
  \/ call.feed[i].direct.k = "raise"
  \/ call.feed[i].direct.k = "response" /\ call.feed[i].direct.status \notin {200, 403}
  \/ DirectIs(i, 200) /\ ~call.feed[i].direct.text.valid
  \/ DirectIs(i, 403) /\ call.feed[i].proxy.k = "raise"
  \/ DirectIs(i, 403) /\ call.feed[i].proxy.k = "response" /\ call.feed[i].proxy.status # 200
  \/ DirectIs(i, 403) /\ ProxyIs(i, 200) /\ ~call.feed[i].proxy.text.valid

\* C12: get_live_matches never raises, and when every URL meets a network
\* error, a timeout, a status other than 200 or a body that is not JSON,
\* on the direct or on the proxied request, it returns the empty list.
NeverRaises ==
  call.done =>
    /\ ~call.got.raised
    /\ (\A i \in Endpoints : EndpointDown(i)) =>
         call.got.result = NoEvents /\ \A i \in Endpoints : Contacted(i)

\* Every URL was down, one by a network error and one by a failing proxy,
\* and the call returned the empty list.
NeverRaisesWitness ==
  /\ call.done
  /\ \A i \in Endpoints : EndpointDown(i)
  /\ \E i \in Endpoints : call.feed[i].direct.k = "raise"
  /\ \E i \in Endpoints : DirectIs(i, 403) /\ call.feed[i].proxy.k = "raise"
  /\ call.got.result = NoEvents
  /\ ~call.got.raised

\* the value _fetch_sofascore_json gives for the i-th URL
DataOf(i) == fetch_sofascore_json(call.feed[i]).data

\* the i-th URL served a body that parses as an object with a list under
\* "events" or under "results"; its list
IsList(object, key) == key \in DOMAIN object.fields /\ object.fields[key].k = "array"
ServesEnvelope(i) ==
  /\ DirectIs(i, 200)
  /\ call.feed[i].direct.text.valid
  /\ call.feed[i].direct.text.value.k = "object"
  /\ IsList(call.feed[i].direct.text.value, "events")
     \/ IsList(call.feed[i].direct.text.value, "results")
ListOf(i) ==
  IF IsList(call.feed[i].direct.text.value, "events")
  THEN call.feed[i].direct.text.value.fields["events"]
  ELSE call.feed[i].direct.text.value.fields["results"]

Offered(data) ==
  IF JTruthy(JGet(data, "events")) THEN JGet(data, "events") ELSE JGet(data, "results")

\* the loop passes over the i-th URL: nothing fetched, or an object whose
\* events and results are both missing or empty
PassedOver(i) ==
  \/ ~JTruthy(DataOf(i))
  \/ DataOf(i).k = "object" /\ ~JTruthy(Offered(DataOf(i)))

ProxyOnlyOn403 ==
  call.done =>
    \A i \in Endpoints :
      /\ Cardinality(RequestsOf(i, "proxy")) =
           (IF Contacted(i) /\ DirectIs(i, 403) THEN 1 ELSE 0)
      /\ \A r \in RequestsOf(i, "proxy") : r > 1 /\ r - 1 \in RequestsOf(i, "direct")

\* The first URL answered 403 and was fetched through the proxy, the
\* second answered 500 and the third 200 with invalid JSON, without proxy.
ProxyOnlyOn403Witness ==
  /\ call.done
  /\ DirectIs(1, 403)
  /\ Cardinality(RequestsOf(1, "proxy")) = 1
  /\ DirectIs(2, 500)
  /\ Contacted(2)
  /\ RequestsOf(2, "proxy") = {}
  /\ DirectIs(3, 200)
  /\ ~call.feed[3].direct.text.valid
  /\ Contacted(3)
  /\ RequestsOf(3, "proxy") = {}

\* C15, as stated: a URL that gives a status that is neither 200 nor 403,
\* or a response that does not parse as an object directly or through the
\* proxy (a 200 whose body is a non-empty array included), fails softly:
\* the next URL is tried, and the empty list is reported only after all
\* URLs have been tried.
SoftFailureMovesOn ==
  call.done =>
    /\ \A i \in Endpoints :
         (Contacted(i) /\ DataOf(i).k # "object" /\ i < Len(call.feed)) => Contacted(i + 1)
    /\ (call.got.result = NoEvents) => \A i \in Endpoints : Contacted(i)

\* the proxy answered 200 with the wrapper whose content is the text of a
\* JSON object
ProxyWraps(i) ==
  /\ DirectIs(i, 403)
  /\ ProxyIs(i, 200)
  /\ call.feed[i].proxy.text.valid
  /\ call.feed[i].proxy.text.value.k = "object"
  /\ DOMAIN call.feed[i].proxy.text.value.fields = {"data"}
  /\ call.feed[i].proxy.text.value.fields["data"].k = "object"
  /\ DOMAIN call.feed[i].proxy.text.value.fields["data"].fields = {"content"}
  /\ call.feed[i].proxy.text.value.fields["data"].fields["content"].k = "string"
  /\ call.feed[i].proxy.text.value.fields["data"].fields["content"].text.valid
  /\ call.feed[i].proxy.text.value.fields["data"].fields["content"].text.value.k = "object"
Inner(i) == call.feed[i].proxy.text.value.fields["data"].fields["content"].text.value

\* the proxy answered 200 with the JSON object itself
ProxyRaw(i) ==
  /\ DirectIs(i, 403)
  /\ ProxyIs(i, 200)
  /\ call.feed[i].proxy.text.valid
  /\ call.feed[i].proxy.text.value.k = "object"
  /\ "data" \notin DOMAIN call.feed[i].proxy.text.value.fields

\* C16: after a direct 403, when the proxy answers 200 with the wrapper
\* {data: {content: "<json>"}} the URL's fetch gives the JSON parsed from
\* the content string, not the wrapper, and its events list is what
\* get_live_matches returns; when the proxy answers with the JSON itself,
\* that JSON's events list is returned.
ProxyUnwrapped ==
  call.done =>
    \A i \in Endpoints :
      /\ ProxyWraps(i) =>
           /\ DataOf(i) = Inner(i)
           /\ (Contacted(i) /\ JTruthy(JGet(Inner(i), "events"))) =>
                call.got.result = JGet(Inner(i), "events")
      /\ ProxyRaw(i) =>
           /\ DataOf(i) = call.feed[i].proxy.text.value
           /\ (Contacted(i) /\ JTruthy(JGet(DataOf(i), "events"))) =>
                call.got.result = JGet(DataOf(i), "events")

\* The first URL answered 403, the proxy answered with the wrapper, and
\* the call returned the events of the wrapped JSON.
ProxyUnwrappedWitness ==
  /\ call.done
  /\ ProxyWraps(1)
  /\ Inner(1) = JObject("events" :> EventsOf(1))
  /\ call.got.result = EventsOf(1)
  /\ call.got.requests = << [endpoint |-> 1, via |-> "direct"], [endpoint |-> 1, via |-> "proxy"] >>

\* C30: one call of get_live_matches sends each of the three URLs at most
\* one direct and at most one proxied request, every request being for one
\* of the three URLs: at most six requests in all.
NoRetry ==
  call.done =>
    /\ Len(call.feed) = 3
    /\ \A r \in 1..Len(call.got.requests) : call.got.requests[r].endpoint \in Endpoints
    /\ \A i \in Endpoints :
         /\ Cardinality(RequestsOf(i, "direct")) <= 1
         /\ Cardinality(RequestsOf(i, "proxy")) <= 1
    /\ Len(call.got.requests) <= 6

\* Every URL answered 403 and every proxied request failed: six requests
\* were made and the call returned the empty list.
NoRetryWitness ==
  /\ call.done
  /\ \A i \in Endpoints : DirectIs(i, 403) /\ EndpointDown(i)
  /\ Len(call.got.requests) = 6
  /\ call.got.result = NoEvents

====
